---- MODULE Spec2Model ----
(***************************************************************************)
(* Model of the e-paper refresh scheduler and renderer                     *)
(* (src/app/renderer.py), of the panel driver it drives                    *)
(* (src/app/display_driver.py) and of the KEY1 callback of the daemon      *)
(* (src/app/main.py).                                                      *)
(*                                                                         *)
(* A logical image is sampled at one representative pixel per cell of the  *)
(* grid induced by the edges of every rectangle the drawing code paints,   *)
(* so that a statement about the samples is a statement about all pixels.  *)
(* Text is painted as the solid box of its extent: the glyph shapes depend *)
(* on the font file and are not modelled.                                  *)
(***************************************************************************)
EXTENDS Integers, Sequences, FiniteSets, TLC

\* ------------------------------------------------------------------------
\* Bounds of the model
\* ------------------------------------------------------------------------
\* refresh.full_after_partials of the configuration (default 60), scaled
FullAfterPartials == 3
\* refresh.full_every_minutes of the configuration (default 45), scaled
FullEveryMinutes == 1
\* the clock advances by TimeStep seconds per tick, up to MaxTime
TimeStep == 30
MaxTime == 90
\* a fault is injected in one of the first MaxFaultSeqs driver sequences
\* (init + write + activate) of an operation
MaxFaultSeqs == 2
\* the render history is counted up to this many render() calls
MaxRenders == 4
\* stale_seconds passed by the caller when the data is not fresh
StaleSecs == 5
MaxFrameWidth == 9      \* widths of the frames packed byte by byte
MaxFrameHeight == 2     \* heights of those frames
MaxOddPixels == 1       \* pixels of such a frame that differ from its background
MaxBufferLen == 2       \* lengths of the buffers handed to the driver byte by byte
MaxDriverFault == 2     \* bus transfers of a driver call before an injected fault
MaxCalls == 2           \* operations each thread of the daemon starts
\* poll.interval_seconds of the configuration (default 45), scaled
PollInterval == 3
MaxLoopTime == 8        \* the clock of the polling loop runs up to this, in seconds
MaxOrderLen == 2        \* entries of fallback.order of the configuration
MaxRetries == 2         \* retries.max of the configuration (default 1) goes up to this
MaxButtonTime == 6      \* the clock of the button handler runs up to this, in 0.1 s

\* ------------------------------------------------------------------------
\* Configuration and constants of the program
\* ------------------------------------------------------------------------
\* config.get("display.width", 264), config.get("display.height", 176)
width == 264
height == 176
\* EPD2in7.WIDTH, EPD2in7.HEIGHT
WIDTH == 176
HEIGHT == 264
\* PIL mode '1' pixel values
WHITE == 255
PollLimit == 100
BLACK == 0

full_refresh_minutes == FullEveryMinutes
full_refresh_after_partials == FullAfterPartials

\* layout zones (x, y, width, height)
ZONE_HEADER == <<0, 0, 264, 28>>
ZONE_PRICE == <<10, 32, 140, 65>>
ZONE_CHANGE == <<155, 32, 100, 65>>
ZONE_STATS == <<10, 102, 244, 50>>
ZONE_FOOTER == <<0, 156, 264, 20>>

DynamicZones == {ZONE_PRICE, ZONE_CHANGE, ZONE_STATS, ZONE_FOOTER}
StaticZones == {ZONE_HEADER}

\* font sizes loaded by the constructor
font_xlarge == 48
font_large == 32
font_medium == 18
font_small == 14
font_tiny == 12

\* the values a caller passes as data: None or a TokenData record
None == "None"
Data == {None, "D1"}
Stale == {0, StaleSecs}

\* ------------------------------------------------------------------------
\* Drawing: a paint operation fills the inclusive box x0..x1, y0..y1
\* ------------------------------------------------------------------------
Fill(x0, y0, x1, y1, c) == <<x0, y0, x1, y1, c>>

\* draw.text((x, y), s, fill=0): anchored at its top left corner, the ink
\* extends w pixels to the right and h pixels down; an empty string paints
\* nothing
Text(x, y, w, h) == IF w = 0 THEN <<>> ELSE <<Fill(x, y, x + w - 1, y + h - 1, BLACK)>>

\* draw.line([(x0, y), (x1, y)], fill=0, width=1)
HLine(x0, x1, y) == <<Fill(x0, y, x1, y, BLACK)>>

\* draw.rectangle([x0, y0, x1, y1], outline=0, width=t)
Outline(x0, y0, x1, y1, t) ==
    << Fill(x0, y0, x1, y0 + t - 1, BLACK), Fill(x0, y1 - t + 1, x1, y1, BLACK),
       Fill(x0, y0, x0 + t - 1, y1, BLACK), Fill(x1 - t + 1, y0, x1, y1, BLACK) >>

\* extents of the strings the draw methods format (they depend on the data)
HeaderTextW == 120
PriceTextW(data) == IF data = None THEN 140 ELSE 254
ArrowTextW(data) == IF data = None THEN 0 ELSE 28
ChangeTextW(data) == IF data = None THEN 33 ELSE 85
VolTextW(data) == IF data = None THEN 80 ELSE 120
LiqTextW(data) == IF data = None THEN 80 ELSE 120
TimeTextW == 42
StatusTextW(stale_seconds) == IF stale_seconds > 0 THEN 60 ELSE 30

_draw_header(data) ==
    LET x == ZONE_HEADER[1]
        y == ZONE_HEADER[2]
        h == ZONE_HEADER[4]
    IN  Text(x + 10, y + 5, HeaderTextW, font_medium) \o HLine(10, width - 10, h - 1)

_draw_price(data) ==
    LET x == ZONE_PRICE[1]
        y == ZONE_PRICE[2]
    IN  Text(x, y + 10, PriceTextW(data), font_xlarge)

_draw_change(data) ==
    LET x == ZONE_CHANGE[1]
        y == ZONE_CHANGE[2]
    IN  Text(x + 5, y + 5, ArrowTextW(data), font_large)
          \o Text(x + 5, y + 40, ChangeTextW(data), font_medium)

_draw_stats(data) ==
    LET x == ZONE_STATS[1]
        y == ZONE_STATS[2]
        h == ZONE_STATS[4]
    IN  Text(x, y + 5, VolTextW(data), font_medium)
          \o Text(x, y + 28, LiqTextW(data), font_medium)
          \o HLine(10, width - 10, y + h - 1)

_draw_footer(stale_seconds) ==
    LET x == ZONE_FOOTER[1]
        y == ZONE_FOOTER[2]
        w == ZONE_FOOTER[3]
        status_width == StatusTextW(stale_seconds)
    IN  Text(x + 10, y + 3, TimeTextW, font_small)
          \o Text(x + w - status_width - 10, y + 4, status_width, font_tiny)

_clear_zone(zone) ==
    LET x == zone[1]
        y == zone[2]
        w == zone[3]
        h == zone[4]
    IN  <<Fill(x, y, x + w, y + h, WHITE)>>

ZoneOutline(zone) == Outline(zone[1], zone[2], zone[1] + zone[3], zone[2] + zone[4], 1)

\* the paint operations of a full render, of a partial render and of the
\* test pattern, in the order the code issues them
FullOps(data, stale_seconds) ==
    _draw_header(data) \o _draw_price(data) \o _draw_change(data)
      \o _draw_stats(data) \o _draw_footer(stale_seconds)

PartialOps(data, stale_seconds) ==
    _clear_zone(ZONE_PRICE) \o _clear_zone(ZONE_CHANGE)
      \o _clear_zone(ZONE_STATS) \o _clear_zone(ZONE_FOOTER)
      \o _draw_price(data) \o _draw_change(data)
      \o _draw_stats(data) \o _draw_footer(stale_seconds)

sample_data == "D1"

TestPatternOps ==
    Outline(0, 0, width - 1, height - 1, 2)
      \o ZoneOutline(ZONE_HEADER) \o ZoneOutline(ZONE_PRICE) \o ZoneOutline(ZONE_CHANGE)
      \o ZoneOutline(ZONE_STATS) \o ZoneOutline(ZONE_FOOTER)
      \o FullOps(sample_data, 0)

\* ------------------------------------------------------------------------
\* Images: one sample per cell of the grid cut at every painted edge
\* ------------------------------------------------------------------------
Range(s) == {s[i] : i \in DOMAIN s}

AllOps ==
    UNION ({Range(FullOps(d, st)) : d \in Data, st \in Stale}
             \cup {Range(PartialOps(d, st)) : d \in Data, st \in Stale}
             \cup {Range(TestPatternOps)})

Zones == StaticZones \cup DynamicZones

InZone(p, zone) ==
    /\ zone[1] <= p[1] /\ p[1] < zone[1] + zone[3]
    /\ zone[2] <= p[2] /\ p[2] < zone[2] + zone[4]

Cover(op, p) == op[1] <= p[1] /\ p[1] <= op[3] /\ op[2] <= p[2] /\ p[2] <= op[4]

\* the grid cut at every edge of a paint operation and of a zone
XCuts ==
    {x \in 0..(width - 1) :
        \/ x = 0
        \/ \E op \in AllOps : x = op[1] \/ x = op[3] + 1
        \/ \E z \in Zones : x = z[1] \/ x = z[1] + z[3]}
YCuts ==
    {y \in 0..(height - 1) :
        \/ y = 0
        \/ \E op \in AllOps : y = op[2] \/ y = op[4] + 1
        \/ \E z \in Zones : y = z[2] \/ y = z[2] + z[4]}
Grid == XCuts \X YCuts

\* two pixels that the same paint operations cover and that lie in the same
\* zones have the same value in every image the renderer can build; one
\* pixel of each such class is sampled
Signature == [p \in Grid |-> <<{op \in AllOps : Cover(op, p)}, {z \in Zones : InZone(p, z)}>>]
Signatures == {Signature[p] : p \in Grid}
SamplePixels == {CHOOSE p \in Grid : Signature[p] = sg : sg \in Signatures}

RECURSIVE SeqOf(_)
SeqOf(S) == IF S = {} THEN <<>> ELSE LET x == CHOOSE y \in S : TRUE IN <<x>> \o SeqOf(S \ {x})

\* the sampled pixels and the paint masks, computed once at start
VARIABLE layout

\* the sampled pixels, numbered; an image maps the number of a sample to
\* the value of that pixel
Pixel == layout.pixel
Samples == DOMAIN layout.pixel

\* the fill of the last paint operation that covers p, or Keep
Keep == -1
RECURSIVE LastFill(_, _, _)
LastFill(p, ops, i) ==
    IF i = 0 THEN Keep
    ELSE IF Cover(ops[i], p) THEN ops[i][5] ELSE LastFill(p, ops, i - 1)

Mask(pixel, ops) == [i \in DOMAIN pixel |-> LastFill(pixel[i], ops, Len(ops))]

\* Image.new('1', (width, height), 255)
ImageNew == [p \in Samples |-> WHITE]

\* self.last_image is None, or holds an image
NoImage == <<>>
Retained(image) == <<image>>
Image(last) == last[1]

\* the image after ImageDraw has applied the paint operations of a mask
Draw(image, mask) == [p \in DOMAIN image |-> IF mask[p] = Keep THEN image[p] ELSE mask[p]]

FullMask == layout.full
PartialMask == layout.partial
TestPatternMask == layout.test


\* ------------------------------------------------------------------------
\* Packed buffers
\* ------------------------------------------------------------------------
\* range(0, img_width, 8)
ByteColumns(img_width) == {x \in 0..(img_width - 1) : x % 8 = 0}

\* the number of buffer.append(byte) executed by the loops of _image_to_buffer
PackedLen(img_width, img_height) == img_height * Cardinality(ByteColumns(img_width))

\* a buffer is its length and the bit of every sampled pixel (1 = white)
\* the image is created with the configured size
ImageBufferLen == layout.image_len

_image_to_buffer(image) ==
    [len |-> ImageBufferLen,
     bits |-> [p \in DOMAIN image |-> IF image[p] = WHITE THEN 1 ELSE 0]]

\* clear() as it would be with one byte per pixel
ClearBuffer_per_pixel ==
    [len |-> WIDTH * HEIGHT, bits |-> [p \in Samples |-> 1]]

\* [0xFF] * (self.width * self.height // 8)
ClearBuffer ==
    [len |-> (WIDTH * HEIGHT) \div 8, bits |-> [p \in Samples |-> 1]]

NoBuffer == [len |-> 0, bits |-> <<>>]

\* ------------------------------------------------------------------------
\* _image_to_buffer byte by byte, on an image given pixel by pixel: size is
\* image.size and px[<<x, y>>] is image.getpixel((x, y))
\* ------------------------------------------------------------------------
Coords(img_width, img_height) == (0..(img_width - 1)) \X (0..(img_height - 1))

\* the images of a size with at most MaxOddPixels pixels that differ from
\* the background
\* the sets of at most n of the coordinates
RECURSIVE OddSetsUpTo(_, _)
OddSetsUpTo(coords, n) ==
    IF n = 0 THEN {{}}
    ELSE LET smaller == OddSetsUpTo(coords, n - 1)
         IN  smaller \cup {odd \cup {c} : odd \in smaller, c \in coords}

OddSets(img_width, img_height) == OddSetsUpTo(Coords(img_width, img_height), MaxOddPixels)

ImagesOf(img_width, img_height) ==
    {[size |-> <<img_width, img_height>>,
      px |-> [c \in Coords(img_width, img_height) |->
                 IF c \in odd THEN ink ELSE WHITE + BLACK - ink]] :
        ink \in {BLACK, WHITE}, odd \in OddSets(img_width, img_height)}

SmallImages ==
    UNION {ImagesOf(w, h) : w \in 1..MaxFrameWidth, h \in 1..MaxFrameHeight}

\* the inner loop with the bits filled from the other end
PackByte_lsb_first(image, x, y, bit) ==
    LET F[b \in 0..8] ==
            IF b = 8 THEN 0
            ELSE F[b + 1]
                 + (IF x + b < image.size[1] /\ image.px[<<x + b, y>>] = 255
                    THEN 2 ^ b ELSE 0)
    IN  F[bit]

\* for bit in range(8): the value the bits from `bit` on add to the byte;
\* byte |= (0x80 >> bit) sets a bit that is still clear
PackByte(image, x, y, bit) ==
    LET F[b \in 0..8] ==
            IF b = 8 THEN 0
            ELSE F[b + 1]
                 + (IF x + b < image.size[1] /\ image.px[<<x + b, y>>] = 255
                    THEN 128 \div (2 ^ b) ELSE 0)
    IN  F[bit]

\* the middle loop stopping before a group of fewer than 8 pixels
RECURSIVE PackRow_whole_bytes(_, _, _, _)
PackRow_whole_bytes(image, y, x, buffer) ==
    IF x + 8 > image.size[1] THEN buffer
    ELSE PackRow_whole_bytes(image, y, x + 8, Append(buffer, PackByte(image, x, y, 0)))

\* for x in range(0, img_width, 8): ... buffer.append(byte)
RECURSIVE PackRow(_, _, _, _)
PackRow(image, y, x, buffer) ==
    IF x >= image.size[1] THEN buffer
    ELSE PackRow(image, y, x + 8, Append(buffer, PackByte(image, x, y, 0)))

\* for y in range(img_height): ...
RECURSIVE PackRows(_, _, _)
PackRows(image, y, buffer) ==
    IF y >= image.size[2] THEN buffer
    ELSE PackRows(image, y + 1, PackRow(image, y, 0, buffer))

\* the bytes _image_to_buffer returns
_image_to_buffer_bytes(image) == PackRows(image, 0, <<>>)

\* ------------------------------------------------------------------------
\* The driver (HAS_HARDWARE is True).  A call runs on a record s that holds
\* the renderer's fields, the bus log of the operation in progress, the
\* number of bus operations that still succeed (budget, -1 = no fault) and
\* raised, which is set when the transport raises: every later step of the
\* operation is then skipped, as the exception unwinds to the caller.
\* ------------------------------------------------------------------------
NoFault == -1

\* spi.open / spi.writebytes: raises when the budget is used up; a write
\* raises when self.spi is None or not open (spi is "None", "new", "open"
\* or "closed")
Emit(s, e) ==
    IF s.raised THEN s
    ELSE IF e # <<"open">> /\ s.spi # "open" THEN [s EXCEPT !.raised = TRUE]
    ELSE IF s.budget = 0 THEN [s EXCEPT !.raised = TRUE]
    ELSE [s EXCEPT !.bus = Append(@, e),
                   !.budget = IF @ > 0 THEN @ - 1 ELSE @]

\* GPIO activity that is not a bus transfer (reset pulse, busy polling)
Note(s, e) == IF s.raised THEN s ELSE [s EXCEPT !.bus = Append(@, e)]

send_command(s, command) == Emit(s, <<"cmd", command>>)
send_data(s, data) == Emit(s, <<"data", data>>)
reset(s) == Note(s, <<"reset">>)

\* while GPIO.input(self.busy_pin) == 1 and timeout < 100: timeout += 1
\* busy: how many reads of the pin still return 1 (Forever: all of them);
\* the result is timeout and what the last read of the pin returned
Forever == -1

\* the loop written with timeout <= 100
RECURSIVE PollLoop_le(_, _)
PollLoop_le(busy, timeout) ==
    IF busy # 0 /\ timeout <= PollLimit
    THEN PollLoop_le(IF busy > 0 THEN busy - 1 ELSE busy, timeout + 1)
    ELSE [timeout |-> timeout, pin |-> IF busy # 0 THEN 1 ELSE 0]

RECURSIVE PollLoop(_, _)
PollLoop(busy, timeout) ==
    IF busy # 0 /\ timeout < PollLimit
    THEN PollLoop(IF busy > 0 THEN busy - 1 ELSE busy, timeout + 1)
    ELSE [timeout |-> timeout, pin |-> IF busy # 0 THEN 1 ELSE 0]

\* the event holds the number of polls, the last read of the pin and
\* whether the warning was printed.  GPIO.input raises while the pins are
\* not set up: before init() and after cleanup(), that is while self.spi
\* is None or closed
wait_until_idle(s) ==
    LET r == PollLoop(s.busy, 0)
    IN  IF ~s.raised /\ s.spi \in {"None", "closed"} THEN [s EXCEPT !.raised = TRUE]
        ELSE Note(s, <<"busy", r.timeout, r.pin, r.timeout >= PollLimit>>)

RECURSIVE SendDataAll(_, _, _)
SendDataAll(s, bytes, i) ==
    IF i > Len(bytes) THEN s ELSE SendDataAll(send_data(s, bytes[i]), bytes, i + 1)

\* send_command(c) followed by send_data of each byte
Command(s, c, bytes) == SendDataAll(send_command(s, c), bytes, 1)

\* init returning at once when the bus is already open
epd_init_skip_if_open(s, mode) ==
    LET s0 == IF s.raised THEN s ELSE [s EXCEPT !.spi = "new"]
        s1 == IF s0.raised \/ s0.budget = 0 THEN Emit(s0, <<"open">>)
              ELSE Emit([s0 EXCEPT !.spi = "open"], <<"open">>)
        s2 == wait_until_idle(reset(s1))
        s3 == wait_until_idle(send_command(s2, 18))
        s4 == Command(s3, 69, <<0, 0, 7, 1>>)
        s5 == Command(s4, 79, <<0, 0>>)
    IN  IF s.spi = "open" THEN s ELSE Command(s5, 17, <<3>>)

\* init setting the data entry mode before the RAM window
epd_init_entry_mode_first(s, mode) ==
    LET s0 == IF s.raised THEN s ELSE [s EXCEPT !.spi = "new"]
        s1 == IF s0.raised \/ s0.budget = 0 THEN Emit(s0, <<"open">>)
              ELSE Emit([s0 EXCEPT !.spi = "open"], <<"open">>)
        s2 == wait_until_idle(reset(s1))
        s3 == wait_until_idle(send_command(s2, 18))
        s4 == Command(s3, 17, <<3>>)
        s5 == Command(s4, 69, <<0, 0, 7, 1>>)
    IN  Command(s5, 79, <<0, 0>>)

\* EPD2in7.init(mode): the mode is not used, the sequence is the same
epd_init(s, mode) ==
    LET s0 == IF s.raised THEN s ELSE [s EXCEPT !.spi = "new"]
        s1 == IF s0.raised \/ s0.budget = 0 THEN Emit(s0, <<"open">>)
              ELSE Emit([s0 EXCEPT !.spi = "open"], <<"open">>)
        s2 == wait_until_idle(reset(s1))
        s3 == wait_until_idle(send_command(s2, 18))
        s4 == Command(s3, 69, <<0, 0, 7, 1>>)
        s5 == Command(s4, 79, <<0, 0>>)
    IN  Command(s5, 17, <<3>>)

\* EPD2in7.display_frame: 0x24, then one send_data per byte of the buffer;
\* the byte stream is logged as one transfer of len bytes and fills the RAM
display_frame(s, frame_buffer) ==
    LET s1 == send_command(s, 36)
        s2 == Emit(s1, <<"frame", frame_buffer.len>>)
    IN  IF s2.raised THEN s2 ELSE [s2 EXCEPT !.ram = frame_buffer]

\* display_frame starting the stream at the second byte
display_frame_bytes_skip_first(s, frame_buffer) ==
    LET s1 == send_command(s, 36)
        s2 == SendDataAll(s1, frame_buffer.bytes, 2)
    IN  IF s2.raised THEN s2 ELSE [s2 EXCEPT !.ram = frame_buffer]

\* EPD2in7.display_frame on a buffer given byte by byte
display_frame_bytes(s, frame_buffer) ==
    LET s1 == send_command(s, 36)
        s2 == SendDataAll(s1, frame_buffer.bytes, 1)
    IN  IF s2.raised THEN s2 ELSE [s2 EXCEPT !.ram = frame_buffer]

\* refresh without the branch for the fast mode
ModeSelector_no_fast(mode) == IF mode = "partial" THEN 255 ELSE 247

ModeSelector(mode) == IF mode = "partial" THEN 255 ELSE IF mode = "fast" THEN 199 ELSE 247

\* EPD2in7.refresh(mode); when it returns, the frame in RAM has been
\* written and activated
refresh(s, mode) ==
    LET s1 == Command(s, 34, <<ModeSelector(mode)>>)
        s2 == wait_until_idle(send_command(s1, 32))
    IN  IF s2.raised THEN s2 ELSE [s2 EXCEPT !.sent = s2.ram]

\* EPD2in7.clear
clear(s) == refresh(display_frame(s, ClearBuffer), "full")

\* EPD2in7.sleep
sleep(s) == Command(s, 16, <<1>>)

\* EPD2in7.cleanup: sleep, then spi.close() if self.spi, then GPIO.cleanup()
cleanup(s) ==
    LET s1 == sleep(s)
    IN  IF s1.raised THEN s1
        ELSE Note([s1 EXCEPT !.spi = IF @ = "None" THEN @ ELSE "closed"], <<"close">>)

\* ------------------------------------------------------------------------
\* The renderer
\* ------------------------------------------------------------------------
\* DisplayRenderer.init
init(s) ==
    IF s.initialized THEN s
    ELSE LET s1 == clear(epd_init(s, "full"))
         IN  IF s1.raised THEN s1
             ELSE [s1 EXCEPT !.last_full_refresh = s.now, !.initialized = TRUE]

\* DisplayRenderer.show_blank
show_blank(s) ==
    LET s1 == clear(epd_init(init(s), "full"))
    IN  IF s1.raised THEN s1 ELSE [s1 EXCEPT !.last_image = Retained(ImageNew)]

\* _should_full_refresh with the time check written >=
_should_full_refresh_ge(now, last_full_refresh, partial_count) ==
    LET time_since_full == now - last_full_refresh
    IN  IF time_since_full >= full_refresh_minutes * 60 THEN TRUE
        ELSE IF partial_count >= full_refresh_after_partials THEN TRUE
        ELSE FALSE

\* _should_full_refresh comparing seconds with minutes
_should_full_refresh_minutes(now, last_full_refresh, partial_count) ==
    LET time_since_full == now - last_full_refresh
    IN  IF time_since_full > full_refresh_minutes THEN TRUE
        ELSE IF partial_count >= full_refresh_after_partials THEN TRUE
        ELSE FALSE

\* _should_full_refresh with the count check written >
_should_full_refresh_gt(now, last_full_refresh, partial_count) ==
    LET time_since_full == now - last_full_refresh
    IN  IF time_since_full > full_refresh_minutes * 60 THEN TRUE
        ELSE IF partial_count > full_refresh_after_partials THEN TRUE
        ELSE FALSE

\* DisplayRenderer._should_full_refresh, with time.time() = now
_should_full_refresh(now, last_full_refresh, partial_count) ==
    LET time_since_full == now - last_full_refresh
    IN  IF time_since_full > full_refresh_minutes * 60 THEN TRUE
        ELSE IF partial_count >= full_refresh_after_partials THEN TRUE
        ELSE FALSE

\* Transmit storing the image before the driver calls
Transmit_store_first(s, image, mode) ==
    LET buffer == _image_to_buffer(image)
        s0 == [s EXCEPT !.last_image = Retained(image)]
        s1 == refresh(display_frame(epd_init(s0, mode), buffer), mode)
    IN  IF s1.raised THEN s1
        ELSE [s1 EXCEPT !.done = Append(@, mode)]

\* Transmit catching the error of the driver and sending the sequence once
\* more
Transmit_retry(s, image, mode) ==
    LET buffer == _image_to_buffer(image)
        s1 == refresh(display_frame(epd_init(s, mode), buffer), mode)
        s2 == IF s1.raised /\ ~s.raised
              THEN refresh(display_frame(epd_init([s1 EXCEPT !.raised = FALSE,
                                                             !.budget = NoFault], mode),
                                         buffer), mode)
              ELSE s1
    IN  IF s2.raised THEN s2
        ELSE [s2 EXCEPT !.last_image = Retained(image), !.done = Append(@, mode)]

\* the three driver calls that end every render path; done counts the
\* transmissions that completed, by refresh mode
Transmit(s, image, mode) ==
    LET buffer == _image_to_buffer(image)
        s1 == refresh(display_frame(epd_init(s, mode), buffer), mode)
    IN  IF s1.raised THEN s1
        ELSE [s1 EXCEPT !.last_image = Retained(image), !.done = Append(@, mode)]

\* _render_full drawing over the retained image when there is one
_render_full_on_retained(s, data, stale_seconds) ==
    IF s.raised THEN s
    ELSE Transmit(s, Draw(IF s.last_image = NoImage THEN ImageNew ELSE Image(s.last_image),
                          FullMask[data, stale_seconds]), "full")

\* DisplayRenderer._render_full
_render_full(s, data, stale_seconds) ==
    IF s.raised THEN s
    ELSE Transmit(s, Draw(ImageNew, FullMask[data, stale_seconds]), "full")

\* _render_partial without the fallback: a missing image is taken as blank
_render_partial_no_fallback(s, data, stale_seconds) ==
    IF s.raised THEN s
    ELSE Transmit(s, Draw(IF s.last_image = NoImage THEN ImageNew ELSE Image(s.last_image),
                          PartialMask[data, stale_seconds]), "partial")

\* DisplayRenderer._render_partial
_render_partial(s, data, stale_seconds) ==
    IF s.raised THEN s
    ELSE IF s.last_image = NoImage THEN _render_full(s, data, stale_seconds)
    ELSE Transmit(s, Draw(Image(s.last_image), PartialMask[data, stale_seconds]), "partial")

\* render recording the time of the full refresh and leaving the counter
RecordFull_no_reset(s) ==
    IF s.raised THEN s
    ELSE [s EXCEPT !.last_full_refresh = s.now, !.recorded = "full"]

\* render taking the threshold off the counter instead of zeroing it
RecordFull_subtract(s) ==
    IF s.raised THEN s
    ELSE [s EXCEPT !.last_full_refresh = s.now,
                   !.partial_count = @ - full_refresh_after_partials,
                   !.recorded = "full"]

\* the assignments of render after _render_full returned
RecordFull(s) ==
    IF s.raised THEN s
    ELSE [s EXCEPT !.last_full_refresh = s.now, !.partial_count = 0,
                   !.recorded = "full"]

\* the assignment of render after _render_partial returned
\* a partial render is not counted
RecordPartial_no_count(s) ==
    IF s.raised THEN s ELSE [s EXCEPT !.recorded = "partial"]

\* partial_count += 1 also after a render that raised
RecordPartial_always(s) ==
    [s EXCEPT !.partial_count = @ + 1, !.recorded = "partial"]

RecordPartial(s) ==
    IF s.raised THEN s
    ELSE [s EXCEPT !.partial_count = @ + 1, !.recorded = "partial"]

\* DisplayRenderer.render
\* render() without the test of the mode
render_ignores_mode(s, data, stale_seconds) ==
    LET s0 == init(s)
    IN  IF s0.raised THEN s0
        ELSE LET should_full_refresh ==
                     _should_full_refresh(s0.now, s0.last_full_refresh, s0.partial_count)
                 s1 == [s0 EXCEPT !.decision = IF should_full_refresh THEN "FULL" ELSE "PARTIAL",
                                  !.elapsed = s0.now - s0.last_full_refresh,
                                  !.count = s0.partial_count]
             IN  IF should_full_refresh
                 THEN RecordFull(_render_full(s1, data, stale_seconds))
                 ELSE RecordPartial(_render_partial(s1, data, stale_seconds))

render(s, data, stale_seconds) ==
    LET s0 == init(s)
    IN  IF s0.raised THEN s0
        ELSE IF s0.mode = "blank" THEN show_blank(s0)
        ELSE LET should_full_refresh ==
                     _should_full_refresh(s0.now, s0.last_full_refresh, s0.partial_count)
                 s1 == [s0 EXCEPT !.decision = IF should_full_refresh THEN "FULL" ELSE "PARTIAL",
                                  !.elapsed = s0.now - s0.last_full_refresh,
                                  !.count = s0.partial_count]
             IN  IF should_full_refresh
                 THEN RecordFull(_render_full(s1, data, stale_seconds))
                 ELSE RecordPartial(_render_partial(s1, data, stale_seconds))

\* DisplayRenderer.show_test_pattern
show_test_pattern(s) ==
    LET s0 == init(s)
    IN  IF s0.raised THEN s0
        ELSE Transmit(s0, Draw(ImageNew, TestPatternMask), "full")


\* ------------------------------------------------------------------------
\* State
\* ------------------------------------------------------------------------
VARIABLES
    initialized,        \* DisplayRenderer.initialized
    last_full_refresh,  \* DisplayRenderer.last_full_refresh
    partial_count,      \* DisplayRenderer.partial_count
    last_image,         \* DisplayRenderer.last_image
    mode,               \* DisplayRenderer.mode ("normal" or "blank")
    now,                \* the value time.time() returns
    sent,               \* the buffer of the last write + activate that returned
    ev,                 \* what the last operation did (bus log, decision, outcome)
    hist,               \* counts of what the renderer did since construction
    codec,              \* an image given pixel by pixel and the bytes packed from it
    daemon,             \* the threads of the daemon: what each is doing on the bus
    epd,                \* the driver object EPD2in7: its spi handle
    panel,              \* the controller of the panel, as the daemon's bus drives it
    app,                \* the daemon object TetsuoDisplay and its main loop
    fetcher,            \* the DataFetcher: its cache file and its last call
    lcd                 \* the display loop of the LCD application TetsuoLCDDisplay

vars == <<initialized, last_full_refresh, partial_count, last_image, mode, now,
          sent, ev, hist, layout, codec, daemon, epd, panel, app, fetcher, lcd>>

\* the variables the renderer's operations leave alone
aside == <<codec, daemon, panel, app, fetcher, lcd>>


\* the bus log of one init + write + activate sequence
DriverSequence ==
    refresh(display_frame(epd_init([bus |-> <<>>, budget |-> NoFault, raised |-> FALSE,
                                    ram |-> NoBuffer, sent |-> NoBuffer,
                                    spi |-> "None", busy |-> 0], "full"),
                          NoBuffer), "full").bus

\* the number of bus operations in it, and the places in it where a fault
\* is injected: inside init, inside the frame stream and at the master
\* activate command
SeqLen == layout.seq_len

\* the tables every operation reads: the sampled pixels, the paint masks
\* of the images the renderer draws, the length of the packed image and of
\* one driver sequence
Layout ==
    LET pixel == SeqOf(SamplePixels)
    IN  [pixel |-> pixel,
         full |-> [d \in Data, st \in Stale |-> Mask(pixel, FullOps(d, st))],
         partial |-> [d \in Data, st \in Stale |-> Mask(pixel, PartialOps(d, st))],
         test |-> Mask(pixel, TestPatternOps),
         static |-> {i \in DOMAIN pixel : \E z \in StaticZones : InZone(pixel[i], z)},
         dynamic |-> {i \in DOMAIN pixel : \E z \in DynamicZones : InZone(pixel[i], z)},
         image_len |-> PackedLen(width, height),
         seq_len |-> Cardinality({i \in DOMAIN DriverSequence :
                                     DriverSequence[i][1] \notin {"reset", "busy"}})]
FaultOffsets == {1, 13, 16}
FaultBudgets(seqs) == {SeqLen * k + o : k \in 0..(seqs - 1), o \in FaultOffsets}

\* op: the operation; ok: it returned (it did not raise); bus: its bus log;
\* done: the modes of the transmissions of rendered images that completed;
\* had_image: last_image was set when it was called; decision, elapsed,
\* count: what _should_full_refresh returned, and the elapsed time and the
\* partial counter it saw; recorded: which counters render updated
NoEv == [op |-> "none", ok |-> TRUE, bus |-> <<>>, done |-> <<>>, had_image |-> FALSE,
         decision |-> "none", elapsed |-> 0, count |-> 0, recorded |-> "none"]

\* pure: only render() calls that returned were made since construction;
\* renders, fulls, partials: how many of them, and how many transmitted in
\* full and in partial mode; start: the time of the first of them;
\* k: assignments partial_count += 1 since the last partial_count = 0;
\* forced: KEY1 was pressed since the last partial_count = 0;
\* fullrun: how many times in a row render recorded a full refresh (up to 2);
\* run: how many partial-mode activations the panel received in a row
NoHist == [pure |-> TRUE, renders |-> 0, fulls |-> 0, partials |-> 0, start |-> 0,
           k |-> 0, forced |-> FALSE, fullrun |-> 0, run |-> 0]

\* no image has been packed byte by byte
NoCodec == [image |-> [size |-> <<0, 0>>, px |-> <<>>], buffer |-> <<>>, done |-> FALSE]

\* the threads of the daemon: the main thread runs TetsuoDisplay.start, the
\* gpio thread runs the callbacks RPi.GPIO.add_event_detect registered
Threads == {"main", "gpio"}

\* no thread is inside an operation of the renderer; op: the operation a
\* thread is in; plan: the record that operation ends in; pc: how many of
\* its bus events have been issued; sel: it has set the data/command line
\* for its next transfer and has not written the byte yet; calls: how many
\* operations it has started
Idle == [op |-> "none", plan |-> [bus |-> <<>>], pc |-> 0, sel |-> FALSE, calls |-> 0]
NoDaemon == [t \in Threads |-> Idle]

\* no method of the driver has been called directly; op, arg, busy, budget:
\* the method, its argument, the busy line during it and the transfers
\* that succeed; ok: it returned; bus: its bus log; before: self.spi when
\* it was called
NoCall == [op |-> "none", arg |-> "none", busy |-> 0, budget |-> NoFault, ok |-> TRUE,
           bus |-> <<>>, before |-> "None"]

\* EPD2in7.__init__
NoEpd == [spi |-> "None", ram |-> NoBuffer, call |-> NoCall]

\* the controller of the panel while the daemon runs.  state: where the
\* commands received so far have taken it (UNINITIALIZED, RESETTING after
\* the reset pulse, CONFIGURING from the software reset 0x12 to the data
\* byte of the data entry mode 0x11, which ends EPD2in7.init, READY,
\* UPDATING from the write RAM command 0x24 to the master activation 0x20,
\* SLEEPING after the deep sleep 0x10); it is ILLEGAL, for good, once a
\* write RAM command arrived outside READY or an activate (0x22, 0x20)
\* outside UPDATING; opcode: the last command received; dc: the level of
\* its data/command line (0 = GPIO.LOW, 1 = GPIO.HIGH)
NoPanel == [state |-> "UNINITIALIZED", opcode |-> 0, dc |-> 0]

PanelStates == {"UNINITIALIZED", "RESETTING", "CONFIGURING", "READY", "UPDATING",
                "SLEEPING", "ILLEGAL"}

\* the controller receives one event of the bus
Receive(p, e) ==
    IF p.state = "ILLEGAL" THEN p
    ELSE IF e[1] = "reset" THEN [p EXCEPT !.state = "RESETTING", !.opcode = 0]
    ELSE IF e[1] = "data"
    THEN IF p.opcode = 17 /\ p.state = "CONFIGURING" THEN [p EXCEPT !.state = "READY"]
         ELSE p
    ELSE IF e[1] # "cmd" THEN p
    ELSE IF e[2] = 18
    THEN [p EXCEPT !.state = IF @ \in {"RESETTING", "READY"} THEN "CONFIGURING" ELSE @,
                   !.opcode = 18]
    ELSE IF e[2] = 36
    THEN [p EXCEPT !.state = IF @ = "READY" THEN "UPDATING" ELSE "ILLEGAL", !.opcode = 36]
    ELSE IF e[2] = 34
    THEN [p EXCEPT !.state = IF @ = "UPDATING" THEN "UPDATING" ELSE "ILLEGAL", !.opcode = 34]
    ELSE IF e[2] = 32
    THEN [p EXCEPT !.state = IF @ = "UPDATING" THEN "READY" ELSE "ILLEGAL", !.opcode = 32]
    ELSE IF e[2] = 16 THEN [p EXCEPT !.state = "SLEEPING", !.opcode = 16]
    ELSE [p EXCEPT !.opcode = e[2]]

\* TetsuoDisplay.__init__ and the locals of its polling loop.
\* manual_refresh_requested: the field; last_poll, current_time: the locals
\* of start();
\* pc: where the polling loop is; key1: KEY1 was pressed and no render()
\* has started since; key4: KEY4 was pressed and no poll cycle has started
\* since; running: the field; signalled: _signal_handler has run; shutdowns,
\* cleanups: the calls of renderer.shutdown() and buttons.cleanup() by start()
\* ButtonHandler: the pins of the keys (BCM numbering), the debounce time in
\* tenths of a second, and the handler after __init__ and after start() has
\* registered the callbacks of KEY1, KEY2 and KEY4. clock: time.time() in
\* tenths of a second, further than debounce_time from the initial
\* last_press_time; accepted: when a press of the key last passed the
\* debounce check; ev: what the last call of _button_callback did
KEY1 == 5
KEY2 == 6
KEY3 == 13
KEY4 == 19
Keys == {KEY1, KEY2, KEY3, KEY4}
debounce_time == 3
NoPress == [channel |-> 0, at |-> 0, since |-> 0, invoked |-> FALSE, raised |-> FALSE,
            propagated |-> FALSE]
NoButtons == [callbacks |-> {KEY1, KEY2, KEY4}, last_press_time |-> [k \in Keys |-> 0],
              clock |-> debounce_time, accepted |-> [k \in Keys |-> 0], ev |-> NoPress]

NoApp == [buttons |-> NoButtons, manual_refresh_requested |-> FALSE, last_poll |-> 0, current_time |-> 0,
          pc |-> "start", key1 |-> FALSE, key4 |-> FALSE,
          running |-> FALSE, signalled |-> FALSE, shutdowns |-> 0, cleanups |-> 0]

\* DataFetcher.__init__: the cache file does not exist yet (NoFile), no
\* record has been fetched (last), no call has been made
NoData == <<>>
NoFile == [state |-> "absent", content |-> <<>>]
NoFetch == [op |-> "none", order |-> <<>>, outcomes |-> <<>>, contacted |-> <<>>,
            fresh |-> NoData, data |-> NoData, stale |-> 0]
NoFetcher == [cache |-> NoFile, last |-> NoData, call |-> NoFetch]

\* TetsuoLCDDisplay._run_display_loop when it is entered: the constants and
\* locals of the loop. due: whether current_time - last_fetch_time has
\* reached poll_interval, and since: the seconds counted towards it;
\* run: how many iterations in a row have raised
max_consecutive_errors == 5
lcd_poll_interval == 5
NoLcd == [pc |-> "loop", since |-> lcd_poll_interval, last_data |-> NoData,
          consecutive_errors |-> 0, run |-> 0, shown_error |-> FALSE]

\* DisplayRenderer.__init__
Init ==
    /\ initialized = FALSE
    /\ last_full_refresh = 0
    /\ partial_count = 0
    /\ last_image = NoImage
    /\ mode \in {"normal", "blank"}
    /\ now = 0
    /\ sent = NoBuffer
    /\ ev = NoEv
    /\ hist = NoHist
    /\ layout = Layout
    /\ codec = NoCodec
    /\ daemon = NoDaemon
    /\ epd = NoEpd
    /\ panel = NoPanel
    /\ app = NoApp
    /\ fetcher = NoFetcher
    /\ lcd = NoLcd

\* the record an operation runs on
Start(budget) ==
    [initialized |-> initialized, last_full_refresh |-> last_full_refresh,
     partial_count |-> partial_count, last_image |-> last_image, mode |-> mode,
     now |-> now, sent |-> sent, ram |-> NoBuffer, spi |-> epd.spi, busy |-> 0,
     bus |-> <<>>, budget |-> budget, raised |-> FALSE, done |-> <<>>,
     decision |-> "none", elapsed |-> 0, count |-> 0, recorded |-> "none"]

Count(seq, m) == Cardinality({i \in DOMAIN seq : seq[i] = m})

\* the mode selectors of the activations on the bus: display update
\* control, the selector, master activate
Activations(bus) ==
    {i \in DOMAIN bus : /\ i + 2 <= Len(bus)
                        /\ bus[i] = <<"cmd", 34>>
                        /\ bus[i + 1][1] = "data"
                        /\ bus[i + 2] = <<"cmd", 32>>}

FullActivations(bus) == {i \in Activations(bus) : bus[i + 1] = <<"data", 247>>}
PartialActivations(bus) == {i \in Activations(bus) : bus[i + 1] = <<"data", 255>>}
\* the partial-mode activations that the panel has received in a row, after
\* those of bus
RunAfter(run, bus) ==
    LET lastfull == {i \in FullActivations(bus) : \A j \in FullActivations(bus) : j <= i}
    IN  IF lastfull = {} THEN run + Cardinality(PartialActivations(bus))
        ELSE Cardinality({i \in PartialActivations(bus) : \A j \in lastfull : i > j})

Impure(h) == [h EXCEPT !.pure = FALSE, !.renders = 0, !.fulls = 0, !.partials = 0, !.start = 0]

HistAfter(op, r) ==
    LET h1 == IF r.recorded = "full"
              THEN [hist EXCEPT !.k = 0, !.forced = FALSE,
                                !.fullrun = IF @ < 2 THEN @ + 1 ELSE @]
              ELSE IF r.recorded = "partial" THEN [hist EXCEPT !.k = @ + 1, !.fullrun = 0]
              ELSE hist
    IN  IF op = "render" /\ ~r.raised /\ h1.pure /\ h1.renders < MaxRenders
        THEN [h1 EXCEPT !.renders = @ + 1,
                        !.fulls = @ + Count(r.done, "full"),
                        !.partials = @ + Count(r.done, "partial"),
                        !.start = IF hist.renders = 0 THEN now ELSE @]
        ELSE Impure(h1)

\* the state after an operation that ended in r
Effect(op, r) ==
    /\ initialized' = r.initialized
    /\ last_full_refresh' = r.last_full_refresh
    /\ partial_count' = r.partial_count
    /\ last_image' = r.last_image
    /\ sent' = r.sent
    /\ ev' = [op |-> op, ok |-> ~r.raised, bus |-> r.bus, done |-> r.done,
              had_image |-> last_image # NoImage,
              decision |-> r.decision, elapsed |-> r.elapsed, count |-> r.count,
              recorded |-> r.recorded]
    /\ hist' = [HistAfter(op, r) EXCEPT !.run = RunAfter(hist.run, r.bus)]
    /\ epd' = [epd EXCEPT !.spi = r.spi]
    /\ UNCHANGED <<mode, now, layout>>

Finish(op, r) == Effect(op, r) /\ UNCHANGED aside

\* the fault points of the next operation: once the renderer is
\* initialized an operation is a single driver sequence
Budgets == FaultBudgets(IF initialized THEN 1 ELSE MaxFaultSeqs) \cup {NoFault}

\* ------------------------------------------------------------------------
\* Actions
\* ------------------------------------------------------------------------
\* renderer.init(), as TetsuoDisplay.start calls it
DoInit ==
    \E budget \in Budgets : Finish("init", init(Start(budget)))

\* renderer.render(data, stale_seconds)
DoRender ==
    \E data \in Data, stale_seconds \in Stale :
        \E budget \in Budgets :
            Finish("render", render(Start(budget), data, stale_seconds))

\* renderer.show_test_pattern()
DoShowTestPattern ==
    \E budget \in Budgets : Finish("show_test_pattern", show_test_pattern(Start(budget)))

\* renderer.show_blank()
DoShowBlank ==
    \E budget \in Budgets : Finish("show_blank", show_blank(Start(budget)))

\* TetsuoDisplay._on_force_full_refresh (KEY1); the buttons are registered
\* after renderer.init() succeeded and only outside blank mode
Key1 ==
    /\ initialized
    /\ mode # "blank"
    /\ partial_count' = full_refresh_after_partials
    /\ ev' = [NoEv EXCEPT !.op = "key1"]
    /\ hist' = Impure([hist EXCEPT !.forced = TRUE])
    /\ UNCHANGED <<initialized, last_full_refresh, last_image, mode, now, sent, layout,
                   epd, aside>>

\* time passes between two operations
Tick ==
    /\ now + TimeStep <= MaxTime
    /\ now' = now + TimeStep
    /\ UNCHANGED <<initialized, last_full_refresh, partial_count, last_image, mode,
                   sent, ev, hist, layout, epd, aside>>

Next == DoInit \/ DoRender \/ DoShowTestPattern \/ DoShowBlank \/ Key1 \/ Tick

Spec == Init /\ [][Next]_vars

\* ------------------------------------------------------------------------
\* The codec on its own: _image_to_buffer applied to small images
\* ------------------------------------------------------------------------
renderer_vars == <<initialized, last_full_refresh, partial_count, last_image, mode, now,
                   sent, ev, hist, layout, epd>>

CodecInit ==
    /\ initialized = FALSE
    /\ last_full_refresh = 0
    /\ partial_count = 0
    /\ last_image = NoImage
    /\ mode = "normal"
    /\ now = 0
    /\ sent = NoBuffer
    /\ ev = NoEv
    /\ hist = NoHist
    /\ layout = Layout
    /\ codec \in {[image |-> image, buffer |-> <<>>, done |-> FALSE] : image \in SmallImages}
    /\ daemon = NoDaemon
    /\ epd = NoEpd
    /\ panel = NoPanel
    /\ app = NoApp
    /\ fetcher = NoFetcher
    /\ lcd = NoLcd

\* buffer = self._image_to_buffer(image)
Pack ==
    /\ ~codec.done
    /\ codec' = [codec EXCEPT !.buffer = _image_to_buffer_bytes(codec.image), !.done = TRUE]
    /\ UNCHANGED <<renderer_vars, daemon, panel, app, fetcher, lcd>>

CodecNext == Pack

CodecSpec == CodecInit /\ [][CodecNext]_vars

\* ------------------------------------------------------------------------
\* The driver on its own: the methods of EPD2in7 called one after the
\* other, in any order, with small buffers, every behaviour of the busy
\* line and faults of the transport
\* ------------------------------------------------------------------------
Bytes == {127, 255}

RECURSIVE ByteSeqs(_)
ByteSeqs(n) ==
    IF n = 0 THEN {<<>>}
    ELSE ByteSeqs(n - 1) \cup {Append(b, x) : b \in ByteSeqs(n - 1), x \in Bytes}

SmallBuffers == {[len |-> Len(b), bits |-> <<>>, bytes |-> b] : b \in ByteSeqs(MaxBufferLen)}

\* the busy line during a call: idle at once, idle after some reads of the
\* pin, never idle
BusyInputs == {0, 1, PollLimit - 1, PollLimit, PollLimit + 1, Forever}
BusyOrNot == {0, Forever}
DriverBudgets == {NoFault} \cup 0..MaxDriverFault
Modes == {"full", "fast", "partial"}

DriverInit ==
    /\ layout = Layout
    /\ initialized = FALSE
    /\ last_full_refresh = 0
    /\ partial_count = 0
    /\ last_image = NoImage
    /\ mode = "normal"
    /\ now = 0
    /\ sent = NoBuffer
    /\ ev = NoEv
    /\ hist = NoHist
    /\ codec = NoCodec
    /\ daemon = NoDaemon
    /\ epd = NoEpd
    /\ panel = NoPanel
    /\ app = NoApp
    /\ fetcher = NoFetcher
    /\ lcd = NoLcd

\* the record a method of the driver runs on
EpdStart(budget, busy) ==
    [bus |-> <<>>, budget |-> budget, raised |-> FALSE, ram |-> epd.ram, sent |-> NoBuffer,
     spi |-> epd.spi, busy |-> busy]

\* the driver after a method that ended in r
Call(op, arg, busy, budget, r) ==
    /\ epd' = [spi |-> r.spi, ram |-> r.ram,
               call |-> [op |-> op, arg |-> arg, busy |-> busy, budget |-> budget,
                         ok |-> ~r.raised, bus |-> r.bus, before |-> epd.spi]]
    /\ UNCHANGED <<initialized, last_full_refresh, partial_count, last_image, mode, now,
                   sent, ev, hist, layout, codec, daemon, panel, app, fetcher, lcd>>

EpdInit ==
    \E m \in {"full", "partial"}, budget \in DriverBudgets, busy \in BusyOrNot :
        Call("init", m, busy, budget, epd_init(EpdStart(budget, busy), m))

EpdDisplayFrame ==
    \E frame_buffer \in SmallBuffers, budget \in DriverBudgets :
        Call("display_frame", frame_buffer, 0, budget,
             display_frame_bytes(EpdStart(budget, 0), frame_buffer))

\* faults are injected with the busy line idle or stuck
EpdRefresh ==
    \E m \in Modes, busy \in BusyInputs :
        \E budget \in IF busy \in BusyOrNot THEN DriverBudgets ELSE {NoFault} :
            Call("refresh", m, busy, budget, refresh(EpdStart(budget, busy), m))

EpdWaitUntilIdle ==
    \E busy \in BusyInputs :
        Call("wait_until_idle", "none", busy, NoFault, wait_until_idle(EpdStart(NoFault, busy)))

EpdClear ==
    \E budget \in DriverBudgets, busy \in BusyOrNot :
        Call("clear", "none", busy, budget, clear(EpdStart(budget, busy)))

EpdSleep ==
    \E budget \in DriverBudgets : Call("sleep", "none", 0, budget, sleep(EpdStart(budget, 0)))

EpdCleanup ==
    \E budget \in DriverBudgets : Call("cleanup", "none", 0, budget, cleanup(EpdStart(budget, 0)))

DriverNext ==
    \/ EpdInit
    \/ EpdDisplayFrame
    \/ EpdRefresh
    \/ EpdWaitUntilIdle
    \/ EpdClear
    \/ EpdSleep
    \/ EpdCleanup

DriverSpec == DriverInit /\ [][DriverNext]_vars

\* ------------------------------------------------------------------------
\* The daemon: TetsuoDisplay.start has initialized the renderer and
\* registered the buttons (normal mode); the main thread renders in its
\* polling loop while the gpio thread runs the button callbacks.  A thread
\* inside an operation issues its bus events one at a time, and the other
\* thread may run between any two of them: nothing in main.py, buttons.py,
\* renderer.py or display_driver.py takes a lock.
\* ------------------------------------------------------------------------
DaemonInit ==
    /\ layout = Layout
    /\ initialized = TRUE
    /\ last_full_refresh = 0
    /\ partial_count = 0
    /\ last_image = NoImage
    /\ mode = "normal"
    /\ now = 0
    /\ sent = ClearBuffer
    /\ ev = [NoEv EXCEPT !.op = "init"]
    /\ hist = Impure(NoHist)
    /\ codec = NoCodec
    /\ daemon = NoDaemon
    /\ epd = [NoEpd EXCEPT !.spi = "open"]
    /\ panel = [NoPanel EXCEPT !.state = "READY"]
    /\ app = [NoApp EXCEPT !.running = TRUE, !.pc = "check"]
    /\ fetcher = NoFetcher
    /\ lcd = NoLcd

\* a thread enters an operation: what it will do is decided by the fields
\* it reads now
Begin(t, op, r) ==
    /\ daemon[t].op = "none"
    /\ daemon[t].calls < MaxCalls
    /\ daemon' = [daemon EXCEPT ![t] = [op |-> op, plan |-> r, pc |-> 0, sel |-> FALSE,
                                        calls |-> @.calls + 1]]
    /\ UNCHANGED <<renderer_vars, codec, panel, fetcher, lcd>>

\* _poll_and_update: self.renderer.render(data, stale_for)
MainRender ==
    /\ \E stale_seconds \in Stale :
           Begin("main", "render", render(Start(NoFault), sample_data, stale_seconds))
    /\ app' = [app EXCEPT !.key1 = FALSE]

\* _button_callback(KEY2): _on_show_test_pattern
Key2 ==
    /\ Begin("gpio", "show_test_pattern", show_test_pattern(Start(NoFault)))
    /\ UNCHANGED app

\* _button_callback(KEY1): _on_force_full_refresh
DaemonKey1 ==
    /\ daemon["gpio"].op = "none"
    /\ daemon["gpio"].calls < MaxCalls
    /\ daemon' = [daemon EXCEPT !["gpio"].calls = @ + 1]
    /\ partial_count' = full_refresh_after_partials
    /\ ev' = [NoEv EXCEPT !.op = "key1"]
    /\ app' = [app EXCEPT !.manual_refresh_requested = TRUE, !.key1 = TRUE]
    /\ UNCHANGED <<initialized, last_full_refresh, last_image, mode, now, sent, hist,
                   layout, epd, codec, panel, fetcher, lcd>>

\* the events that are transfers on the bus (spi.writebytes), and the
\* commands among them
IsTransfer(e) == e[1] \in {"cmd", "data", "frame"}
IsCommand(e) == e[1] = "cmd"

\* the next bus event of a thread, and the level send_command (LOW) and
\* send_data (HIGH) give the data/command line before they write
NextEvent(t) == daemon[t].plan.bus[daemon[t].pc + 1]
DcLevel(e) == IF e[1] = "cmd" THEN 0 ELSE 1

\* send_command / send_data, first statement: GPIO.output(self.dc_pin, ..)
Select(t) ==
    /\ daemon[t].op # "none"
    /\ daemon[t].pc < Len(daemon[t].plan.bus)
    /\ IsTransfer(NextEvent(t))
    /\ ~daemon[t].sel
    /\ daemon' = [daemon EXCEPT ![t].sel = TRUE]
    /\ panel' = [panel EXCEPT !.dc = DcLevel(NextEvent(t))]
    /\ UNCHANGED <<renderer_vars, codec, app, fetcher, lcd>>

\* the thread issues its next bus event; for a transfer this is the second
\* statement of send_command / send_data: self.spi.writebytes([..])
BusStep(t) ==
    /\ daemon[t].op # "none"
    /\ daemon[t].pc < Len(daemon[t].plan.bus)
    /\ IsTransfer(NextEvent(t)) => daemon[t].sel
    /\ daemon' = [daemon EXCEPT ![t].pc = @ + 1, ![t].sel = FALSE]
    /\ panel' = Receive(panel, NextEvent(t))
    /\ UNCHANGED <<renderer_vars, codec, app, fetcher, lcd>>

\* the operation returns: the assignments that follow the driver calls
\* (last_image = image; last_full_refresh = time.time(), partial_count = 0
\* or partial_count += 1) and, on the main thread, the one of the polling
\* loop after _poll_and_update (manual_refresh_requested = False)
Return(t) ==
    LET r == daemon[t].plan
    IN  /\ daemon[t].op # "none"
        /\ daemon[t].pc = Len(r.bus)
        /\ last_image' = r.last_image
        /\ sent' = r.sent
        /\ last_full_refresh' = IF r.recorded = "full" THEN now ELSE last_full_refresh
        /\ partial_count' = IF r.recorded = "full" THEN 0
                            ELSE IF r.recorded = "partial" THEN partial_count + 1
                            ELSE partial_count
        /\ ev' = [op |-> daemon[t].op, ok |-> TRUE, bus |-> r.bus, done |-> r.done,
                  had_image |-> last_image # NoImage,
                  decision |-> r.decision, elapsed |-> r.elapsed, count |-> r.count,
                  recorded |-> r.recorded]
        /\ daemon' = [daemon EXCEPT ![t] = [Idle EXCEPT !.calls = daemon[t].calls]]
        /\ app' = IF t = "main" THEN [app EXCEPT !.manual_refresh_requested = FALSE]
                  ELSE app
        /\ UNCHANGED <<initialized, mode, now, hist, layout, codec, epd, panel, fetcher, lcd>>

DaemonNext ==
    \/ MainRender
    \/ Key2
    \/ DaemonKey1
    \/ \E t \in Threads : Select(t)
    \/ \E t \in Threads : BusStep(t)
    \/ \E t \in Threads : Return(t)

DaemonSpec == DaemonInit /\ [][DaemonNext]_vars

TypeOK ==
    /\ initialized \in BOOLEAN
    /\ last_full_refresh \in 0..MaxTime
    /\ partial_count \in 0..full_refresh_after_partials
    /\ now \in 0..MaxTime
    /\ last_full_refresh <= now


\* ------------------------------------------------------------------------
\* Reading the bus log
\* ------------------------------------------------------------------------
CeilDiv(a, b) == (a + b - 1) \div b

FullRefreshSeconds == full_refresh_minutes * 60

FrameWrites(bus) == {i \in DOMAIN bus : bus[i][1] = "frame"}

\* a full refresh on the bus: the init sequence, then write RAM, then an
\* activation with the full selector
FullRefreshOnBus(bus) ==
    \E k \in FullActivations(bus) :
        \E j \in 1..(k - 1) :
            /\ bus[j] = <<"cmd", 36>> /\ j + 1 \in FrameWrites(bus)
            /\ \E i \in 1..(j - 1) : bus[i] = <<"cmd", 18>>

Rendered == ev.op = "render" /\ ev.decision # "none"

\* ------------------------------------------------------------------------
\* C1
\* ------------------------------------------------------------------------
\* C1 (as stated): the decision is FULL if and only if the elapsed time is
\* at least the full-refresh interval or the partial counter has reached
\* its maximum; an elapsed time equal to the interval yields FULL.
C1_DecisionAtLeast ==
    /\ initialized =>
         (_should_full_refresh(now, last_full_refresh, partial_count)
            <=> (now - last_full_refresh >= FullRefreshSeconds
                   \/ partial_count >= full_refresh_after_partials))
    /\ Rendered =>
         (ev.decision = "FULL"
            <=> (ev.elapsed >= FullRefreshSeconds \/ ev.count >= full_refresh_after_partials))

\* C1 (amended): the decision is FULL if and only if the elapsed time is
\* strictly greater than the interval or the partial counter has reached its
\* maximum, for the state of every reachable scheduler and for the decision
\* every render() took; an elapsed time equal to the interval, with the
\* counter below its maximum, yields PARTIAL.
C1_DecisionStrict ==
    /\ initialized =>
         (_should_full_refresh(now, last_full_refresh, partial_count)
            <=> (now - last_full_refresh > FullRefreshSeconds
                   \/ partial_count >= full_refresh_after_partials))
    /\ Rendered =>
         /\ ev.decision = "FULL"
              <=> (ev.elapsed > FullRefreshSeconds \/ ev.count >= full_refresh_after_partials)
         /\ (ev.elapsed = FullRefreshSeconds /\ ev.count < full_refresh_after_partials)
              => ev.decision = "PARTIAL"

\* a render() that decided with the elapsed time equal to the interval
C1_Witness ==
    /\ Rendered /\ ev.ok
    /\ ev.elapsed = FullRefreshSeconds
    /\ ev.count < full_refresh_after_partials
    /\ ev.decision = "PARTIAL"

\* ------------------------------------------------------------------------
\* C2
\* ------------------------------------------------------------------------
\* C2 (as stated): partial_count is reset to 0 exactly when a full refresh
\* executes: an operation that returned after a full-mode activation leaves
\* the counter at 0, and a step that brings the counter to 0 is an
\* operation that executed a full refresh.
C2_ResetExactlyOnFull ==
    /\ []((ev.op \in {"render", "show_test_pattern", "show_blank"} /\ ev.ok
             /\ FullActivations(ev.bus) # {})
            => partial_count = 0)
    /\ [][(partial_count # 0 /\ partial_count' = 0)
            => (ev'.ok /\ FullActivations(ev'.bus) # {})]_vars

\* ------------------------------------------------------------------------
\* C3
\* ------------------------------------------------------------------------
\* C3: whenever last_image is set its packed buffer is the buffer of the
\* last write RAM + activate sequence that returned, and an operation that
\* raised leaves last_image as it was.
C3_RetainedIsLastSent ==
    /\ [](last_image # NoImage => _image_to_buffer(Image(last_image)) = sent)
    /\ [][~ev'.ok => last_image' = last_image]_vars

\* a render() raised after it streamed the frame of a new image, and the
\* retained image is still the one sent before
C3_Witness ==
    /\ ev.op = "render" /\ ~ev.ok /\ ev.had_image
    /\ FrameWrites(ev.bus) # {}
    /\ last_image # NoImage
    /\ _image_to_buffer(Image(last_image)) = sent

\* ------------------------------------------------------------------------
\* C4
\* ------------------------------------------------------------------------
\* C4: a render() called while last_image is None, if it returns, has put a
\* full refresh on the bus (init, write RAM, activate with the full
\* selector) and no activation with the partial selector, whatever
\* _should_full_refresh decided.
C4_FirstRenderIsFull ==
    (ev.op = "render" /\ ev.ok /\ ~ev.had_image)
        => /\ FullRefreshOnBus(ev.bus)
           /\ PartialActivations(ev.bus) = {}
           /\ ev.decision # "none" => ev.done = <<"full">>

\* the first render() decided PARTIAL and transmitted in full mode
C4_Witness ==
    /\ ev.op = "render" /\ ev.ok /\ ~ev.had_image
    /\ ev.decision = "PARTIAL"
    /\ ev.done = <<"full">>

StaticSamples == layout.static
DynamicSamples == layout.dynamic

\* a step in which render() transmitted a partial update of the retained image
PartialRenderStep ==
    /\ ev'.op = "render" /\ ev'.ok /\ ev'.done = <<"partial">>
    /\ last_image # NoImage /\ last_image' # NoImage

Changed(i) == Image(last_image')[i] # Image(last_image)[i]

\* C6 (as stated): a partial render leaves every pixel of the static zone
\* as it is in the retained image, and it changes pixels of the dynamic
\* zones only.
C6_OnlyDynamicZonesChange ==
    [][PartialRenderStep =>
         /\ \A i \in StaticSamples : ~Changed(i)
         /\ \A i \in Samples : Changed(i) => i \in DynamicSamples]_vars

\* the part of C6 that the code satisfies: a partial render leaves every
\* pixel of the static zone as it is in the retained image
C6_StaticZonePreserved ==
    [][PartialRenderStep => \A i \in StaticSamples : ~Changed(i)]_vars

\* ------------------------------------------------------------------------
\* C7
\* ------------------------------------------------------------------------
\* C7: with M = full_refresh_after_partials, when render has recorded k
\* partial updates since it last recorded a full refresh and KEY1 was not
\* pressed since, and the interval has not elapsed, the next decision is
\* FULL if k = M and PARTIAL if k < M.
C7_CountTrigger ==
    (initialized /\ ~hist.forced /\ now - last_full_refresh < FullRefreshSeconds)
        => /\ hist.k <= full_refresh_after_partials
           /\ _should_full_refresh(now, last_full_refresh, partial_count)
                <=> hist.k = full_refresh_after_partials

\* M partial updates were recorded and no time has elapsed
C7_Witness ==
    /\ initialized /\ ~hist.forced
    /\ hist.k = full_refresh_after_partials
    /\ ev.recorded = "partial"
    /\ now - last_full_refresh < FullRefreshSeconds
    /\ _should_full_refresh(now, last_full_refresh, partial_count)

\* ------------------------------------------------------------------------
\* C8
\* ------------------------------------------------------------------------
TimeTrigger == ev.elapsed > FullRefreshSeconds
CountTrigger == ev.count >= full_refresh_after_partials

\* C8: a render() that decided with both triggers true and returned has
\* transmitted exactly one image, in full mode, with one full activation on
\* the bus, has reset the counter once, and the decision that follows with
\* no time elapsed is PARTIAL.
C8_BothTriggersOneFull ==
    (Rendered /\ ev.ok /\ TimeTrigger /\ CountTrigger)
        => /\ ev.decision = "FULL"
           /\ ev.done = <<"full">>
           /\ Cardinality(FullActivations(ev.bus)) = 1
           /\ PartialActivations(ev.bus) = {}
           /\ ev.recorded = "full"
           /\ partial_count = 0
           /\ ~_should_full_refresh(last_full_refresh, last_full_refresh, partial_count)

C8_Witness ==
    /\ Rendered /\ ev.ok /\ TimeTrigger /\ CountTrigger
    /\ ev.done = <<"full">>
    /\ partial_count = 0

\* ------------------------------------------------------------------------
\* C9
\* ------------------------------------------------------------------------
\* the scheduler after render's full-refresh assignments ran on the current
\* state once, and twice
RecordedOnce == RecordFull(Start(NoFault))
RecordedTwice == RecordFull(RecordedOnce)

\* C9: recording a full refresh twice in a row leaves the counters as
\* recording it once does: partial_count is 0, last_full_refresh is the
\* same and so is every later decision; and after render() recorded a full
\* refresh twice in a row the counter is 0.
C9_RecordFullIdempotent ==
    /\ RecordedOnce.partial_count = 0
    /\ RecordedTwice.partial_count = RecordedOnce.partial_count
    /\ RecordedTwice.last_full_refresh = RecordedOnce.last_full_refresh
    /\ \A t \in now..MaxTime :
         _should_full_refresh(t, RecordedTwice.last_full_refresh, RecordedTwice.partial_count)
           = _should_full_refresh(t, RecordedOnce.last_full_refresh, RecordedOnce.partial_count)
    /\ (ev.recorded = "full" /\ hist.fullrun >= 1) => partial_count = 0

\* render() recorded a full refresh twice in a row
C9_Witness ==
    /\ ev.recorded = "full" /\ hist.fullrun = 2
    /\ partial_count = 0

\* ------------------------------------------------------------------------
\* C10
\* ------------------------------------------------------------------------
\* frame sizes for which the length of the packed buffer is compared
MaxPackWidth == 17
MaxPackHeight == 3

\* C10: for every width W and height H the packing loops append
\* ceil(W/8) * H bytes, and every buffer streamed after a write RAM command,
\* the one of clear() included, has ceil(WIDTH/8) * HEIGHT bytes.
C10_PackedLength ==
    /\ \A W \in 1..MaxPackWidth, H \in 0..MaxPackHeight :
         PackedLen(W, H) = CeilDiv(W, 8) * H
    /\ \A i \in FrameWrites(ev.bus) : ev.bus[i][2] = CeilDiv(WIDTH, 8) * HEIGHT

\* a render() that initialized the display streamed two buffers: the one of
\* clear() and the one of the image
C10_Witness ==
    /\ ev.op = "render" /\ ev.ok
    /\ Cardinality(FrameWrites(ev.bus)) = 2
    /\ ev.done = <<"full">>

\* ------------------------------------------------------------------------
\* C11
\* ------------------------------------------------------------------------
\* bit k of a byte (bit 7 is the most significant)
Bit(byte, k) == (byte \div (2 ^ k)) % 2

AllPixels(image, ink) == \A c \in DOMAIN image.px : image.px[c] = ink

\* C11: pixel (x, y) of a packed image is bit 7 - (x mod 8) of byte
\* y*ceil(W/8) + x div 8, 1 for WHITE and 0 for BLACK; the unused low bits
\* of a trailing partial byte are 0; an 8x1 all-WHITE image packs to 0xFF,
\* an all-BLACK one to 0x00 and one with a single BLACK pixel at (0,0) to
\* 0x7F.
C11_PackLayout ==
    codec.done =>
        LET image == codec.image
            W == image.size[1]
            H == image.size[2]
            stride == CeilDiv(W, 8)
            buffer == codec.buffer
        IN  /\ Len(buffer) = H * stride
            /\ \A c \in Coords(W, H) :
                   Bit(buffer[c[2] * stride + (c[1] \div 8) + 1], 7 - (c[1] % 8))
                       = IF image.px[c] = WHITE THEN 1 ELSE 0
            /\ \A y \in 0..(H - 1), x \in W..(8 * stride - 1) :
                   Bit(buffer[y * stride + (x \div 8) + 1], 7 - (x % 8)) = 0
            /\ \A i \in DOMAIN buffer : buffer[i] \in 0..255
            /\ image.size = <<8, 1>> =>
                   /\ AllPixels(image, WHITE) => buffer = <<255>>
                   /\ AllPixels(image, BLACK) => buffer = <<0>>
                   /\ (\A c \in DOMAIN image.px : image.px[c] = BLACK <=> c = <<0, 0>>)
                          => buffer = <<127>>

\* an 8x1 image with a single black pixel at (0,0) has been packed to 0x7F
C11_Witness ==
    /\ codec.done
    /\ codec.image.size = <<8, 1>>
    /\ \A c \in DOMAIN codec.image.px : codec.image.px[c] = BLACK <=> c = <<0, 0>>
    /\ codec.buffer = <<127>>

\* ------------------------------------------------------------------------
\* C12
\* ------------------------------------------------------------------------
\* the inverse the specification asks for: the pixels of a W x H image read
\* back from a packed buffer
unpack(buffer, W, H) ==
    [c \in Coords(W, H) |->
        IF Bit(buffer[c[2] * CeilDiv(W, 8) + (c[1] \div 8) + 1], 7 - (c[1] % 8)) = 1
        THEN WHITE ELSE BLACK]

\* C12: packing loses no pixel, also for widths not divisible by 8: the
\* packed bytes read back give the image that was packed, and changing any
\* one pixel of the image changes the packed bytes.
C12_RoundTrip ==
    codec.done =>
        LET image == codec.image
            W == image.size[1]
            H == image.size[2]
        IN  /\ Len(codec.buffer) = H * CeilDiv(W, 8)
            /\ unpack(codec.buffer, W, H) = image.px
            /\ \A c \in Coords(W, H) :
                   _image_to_buffer_bytes(
                       [image EXCEPT !.px[c] = WHITE + BLACK - @]) # codec.buffer

\* an image 9 pixels wide with a black pixel in the ninth column has been
\* packed and read back
C12_Witness ==
    /\ codec.done
    /\ codec.image.size = <<9, 2>>
    /\ codec.image.px[<<8, 1>>] = BLACK
    /\ codec.image.px[<<0, 0>>] = WHITE
    /\ unpack(codec.buffer, 9, 2) = codec.image.px

\* ------------------------------------------------------------------------
\* C13
\* ------------------------------------------------------------------------
\* Image.new('1', (self.width, self.height), 255) and the panel size the
\* driver holds (self.width = WIDTH, self.height = HEIGHT)
ImageSize == <<width, height>>
PanelSize == <<WIDTH, HEIGHT>>

\* an operation that packs an image and hands it to the driver
Transmits == ev.op \in {"render", "show_test_pattern"} /\ mode # "blank"

\* C13: an image whose dimensions disagree with the panel size of the
\* driver is rejected with an error before any bus traffic is issued for
\* it: the operation fails and no image is written and activated.
C13_MismatchRejected ==
    (Transmits /\ ImageSize # PanelSize) =>
        /\ ~ev.ok
        /\ ev.done = <<>>

\* ------------------------------------------------------------------------
\* C14
\* ------------------------------------------------------------------------
\* the first command of a bus log
FirstCommand(bus) ==
    CHOOSE i \in DOMAIN bus : bus[i][1] = "cmd" /\ \A j \in 1..(i - 1) : bus[j][1] # "cmd"

\* the thread is between the first command of its sequence and the end of
\* its activate
InFlight(t) ==
    /\ daemon[t].op # "none"
    /\ daemon[t].pc >= FirstCommand(daemon[t].plan.bus)
    /\ daemon[t].pc < Len(daemon[t].plan.bus)

\* C14: only one bus-driving sequence is in flight at a time, for every
\* interleaving of the button callbacks with the main polling loop.
C14_OneSequenceInFlight ==
    \A t, u \in Threads : (InFlight(t) /\ InFlight(u)) => t = u

\* ------------------------------------------------------------------------
\* C15
\* ------------------------------------------------------------------------

\* the commands and data bytes of a bus log, and its commands alone
Wire(bus) == SelectSeq(bus, IsTransfer)
Opcodes(bus) == [i \in DOMAIN SelectSeq(bus, IsCommand) |-> SelectSeq(bus, IsCommand)[i][2]]

IsPrefix(a, b) == Len(a) <= Len(b) /\ \A i \in DOMAIN a : a[i] = b[i]

InitReturned == epd.call.op = "init" /\ epd.call.ok

\* C15 (as stated): initialize emits, in this order, software reset 0x12,
\* driver output control 0x01, data entry mode 0x11, RAM X range 0x44, RAM
\* Y range 0x45, border waveform 0x3C, temperature sensor 0x18 and the RAM
\* counter resets 0x4E and 0x4F.
C15_InitNineCommands ==
    InitReturned => Opcodes(epd.call.bus) = <<18, 1, 17, 68, 69, 60, 24, 78, 79>>

\* what init puts on the wire: 0x12; 0x45 00 00 07 01; 0x4F 00 00; 0x11 03
InitWire ==
    << <<"cmd", 18>>,
       <<"cmd", 69>>, <<"data", 0>>, <<"data", 0>>, <<"data", 7>>, <<"data", 1>>,
       <<"cmd", 79>>, <<"data", 0>>, <<"data", 0>>,
       <<"cmd", 17>>, <<"data", 3>> >>

\* C15 (amended): initialize emits, in this order, software reset 0x12,
\* RAM Y range 0x45 with 4 data bytes, RAM Y counter 0x4F with 2 data
\* bytes and data entry mode 0x11 with 1 data byte, each command followed
\* by its data bytes and by nothing else, after the hardware reset; a call
\* that fails has emitted a prefix of that.
C15_InitFourCommands ==
    epd.call.op = "init" =>
        /\ IsPrefix(Wire(epd.call.bus), InitWire)
        /\ epd.call.ok => Wire(epd.call.bus) = InitWire
        /\ \A i \in DOMAIN epd.call.bus :
               epd.call.bus[i][1] = "cmd" =>
                   \E j \in 1..(i - 1) : epd.call.bus[j] = <<"reset">>

\* init has returned
C15_Witness ==
    /\ InitReturned
    /\ Opcodes(epd.call.bus) = <<18, 69, 79, 17>>

\* ------------------------------------------------------------------------
\* C16
\* ------------------------------------------------------------------------
\* C16: initialize is idempotent: invoked again with the bus open (READY)
\* it is legal (it returns unless the transport fails), it emits the same
\* command/data sequence and leaves the driver in the same state as the
\* first invocation; invoked right after an initialize that returned, it
\* repeats that call's bus log and leaves the driver as it was.
C16_InitIdempotent ==
    [][(epd'.call.op = "init" /\ epd.spi = "open") =>
          /\ epd'.call.budget = NoFault => epd'.call.ok
          /\ epd'.call.ok =>
                /\ Wire(epd'.call.bus) = InitWire
                /\ epd'.spi = "open"
                /\ epd'.ram = epd.ram
          /\ (InitReturned /\ epd'.call.ok /\ epd'.call.busy = epd.call.busy) =>
                /\ epd'.call.bus = epd.call.bus
                /\ epd'.spi = epd.spi]_vars

\* initialize has returned from an invocation with the bus already open
C16_Witness ==
    /\ InitReturned
    /\ epd.call.before = "open"
    /\ Wire(epd.call.bus) = InitWire

\* ------------------------------------------------------------------------
\* C17
\* ------------------------------------------------------------------------
\* write RAM, then the bytes of a buffer as data bytes
FrameWire(bytes) == <<<<"cmd", 36>>>> \o [i \in DOMAIN bytes |-> <<"data", bytes[i]>>]

\* C17: writeFrame issues the write-RAM command 0x24 exactly once and then
\* sends every byte of the packed buffer as a data byte, in buffer order,
\* with no other command interleaved before the last byte; a call the
\* transport fails has sent a prefix of that.
C17_WriteFrame ==
    epd.call.op = "display_frame" =>
        /\ IsPrefix(epd.call.bus, FrameWire(epd.call.arg.bytes))
        /\ epd.call.ok => /\ epd.call.bus = FrameWire(epd.call.arg.bytes)
                          /\ Opcodes(epd.call.bus) = <<36>>
                          /\ epd.ram = epd.call.arg
        /\ (epd.call.budget = NoFault /\ epd.call.before = "open") => epd.call.ok

\* a buffer of two different bytes has been written
C17_Witness ==
    /\ epd.call.op = "display_frame"
    /\ epd.call.ok
    /\ epd.call.arg.bytes = <<127, 255>>
    /\ epd.call.bus = << <<"cmd", 36>>, <<"data", 127>>, <<"data", 255>> >>

\* ------------------------------------------------------------------------
\* C18
\* ------------------------------------------------------------------------
\* display update control with a selector, then master activate
ActivateWire(selector) == << <<"cmd", 34>>, <<"data", selector>>, <<"cmd", 32>> >>

DocumentedSelector(m) == IF m = "full" THEN 247 ELSE IF m = "fast" THEN 199 ELSE 255

\* C18: activate(mode) issues display update control 0x22 with one data
\* byte, 0xF7 for full, 0xC7 for fast and 0xFF for partial, then master
\* activate 0x20, then polls the busy line, and returns with the driver
\* ready whether the line went idle or the polls ran out.
C18_Activate ==
    epd.call.op = "refresh" =>
        LET wire == ActivateWire(DocumentedSelector(epd.call.arg))
            bus == epd.call.bus
        IN  /\ IsPrefix(Wire(bus), wire)
            /\ epd.call.ok =>
                  /\ Wire(bus) = wire
                  /\ Len(bus) = 4 /\ bus[4][1] = "busy"
                  /\ bus[4][2] <= PollLimit
                  /\ epd.spi = "open"
            /\ (epd.call.budget = NoFault /\ epd.call.before = "open") => epd.call.ok

\* an activate in fast mode has returned although the busy line never went
\* idle
C18_Witness ==
    /\ epd.call.op = "refresh"
    /\ epd.call.arg = "fast"
    /\ epd.call.busy = Forever
    /\ epd.call.ok
    /\ epd.call.bus = << <<"cmd", 34>>, <<"data", 199>>, <<"cmd", 32>>,
                         <<"busy", PollLimit, 1, TRUE>> >>

\* ------------------------------------------------------------------------
\* C19
\* ------------------------------------------------------------------------
\* C19: the commands reach the controller in the order of the protocol: a
\* write RAM command only when a reset and an initialization have
\* completed (READY), an activate only after a write RAM command
\* (UPDATING), and none of them after a deep sleep without a reset and an
\* initialization in between.
C19_ProtocolOrder == panel.state # "ILLEGAL"

\* ------------------------------------------------------------------------
\* C20
\* ------------------------------------------------------------------------
\* the busy waits of a bus log
Polls(bus) == {i \in DOMAIN bus : bus[i][1] = "busy"}

\* C20: wait_until_idle always ends: every wait of a driver call polled
\* the busy line at most PollLimit (100) times, and wait_until_idle called
\* on a driver whose pins are set up returns without raising, after
\* exactly PollLimit polls when the busy line never goes idle.
C20_PollTerminates ==
    /\ \A i \in Polls(epd.call.bus) : epd.call.bus[i][2] <= PollLimit
    /\ (epd.call.op = "wait_until_idle" /\ epd.call.before \in {"new", "open"}) =>
           /\ epd.call.ok
           /\ Len(epd.call.bus) = 1
           /\ Polls(epd.call.bus) = {1}
           /\ epd.call.busy = Forever =>
                  epd.call.bus[1] = <<"busy", PollLimit, 1, TRUE>>

\* wait_until_idle returned although the busy line never went idle
C20_Witness ==
    /\ epd.call.op = "wait_until_idle"
    /\ epd.call.busy = Forever
    /\ epd.call.ok
    /\ epd.call.bus = <<<<"busy", PollLimit, 1, TRUE>>>>

\* ------------------------------------------------------------------------
\* C21
\* ------------------------------------------------------------------------
\* C21: every busy wait of a driver call gives the timeout warning if and
\* only if the last read of the busy line, the one that ended the wait,
\* returned busy; a wait that saw the line idle, also on its last read,
\* gives no warning.
C21_TimeoutIffBusy ==
    \A i \in Polls(epd.call.bus) :
        epd.call.bus[i][4] <=> (epd.call.bus[i][3] = 1)

\* ------------------------------------------------------------------------
\* C22
\* ------------------------------------------------------------------------
\* the events of EPD2in7.init: opening the bus, the reset pulse and the
\* commands 0x12, 0x45, 0x4F, 0x11
IsInitEvent(e) ==
    \/ e[1] \in {"open", "reset"}
    \/ e[1] = "cmd" /\ e[2] \in {18, 69, 79, 17}

\* C22: a render that decided PARTIAL and had a retained frame puts only
\* the write RAM command, the frame and the activate with the partial
\* selector on the bus, no reset and no command of the initialization, and
\* it counts the partial refresh only when the activate has returned.
C22_PartialNoInit ==
    (ev.op = "render" /\ ev.decision = "PARTIAL" /\ ev.had_image) =>
        /\ \A i \in DOMAIN ev.bus : ~IsInitEvent(ev.bus[i])
        /\ ev.recorded # "full"
        /\ ev.recorded = "partial" => (ev.ok /\ ev.done = <<"partial">>)

\* ------------------------------------------------------------------------
\* C23
\* ------------------------------------------------------------------------
\* the images _render_full draws: all zones on a new white image
FreshFullImages ==
    {Draw(ImageNew, FullMask[data, stale_seconds]) : data \in Data, stale_seconds \in Stale}

\* C23: a render that decided FULL and returned has sent an image drawn on
\* a new white image (whatever the retained image was), with the
\* initialization, the write RAM command and the activate with the full
\* selector in that order and no partial activate, and has then recorded
\* the full refresh (last_full_refresh = now, partial_count = 0); one that
\* raised has recorded nothing.
C23_FullRender ==
    [][(ev'.op = "render" /\ now' = now /\ ev'.decision = "FULL") =>
          IF ev'.ok
          THEN /\ FullRefreshOnBus(ev'.bus)
               /\ PartialActivations(ev'.bus) = {}
               /\ ev'.done = <<"full">>
               /\ \E image \in FreshFullImages :
                      /\ last_image' = Retained(image)
                      /\ sent' = _image_to_buffer(image)
               /\ ev'.recorded = "full"
               /\ last_full_refresh' = now
               /\ partial_count' = 0
          ELSE /\ ev'.recorded = "none"
               /\ ev'.done = <<>>
               /\ partial_count' = partial_count
               /\ initialized => last_full_refresh' = last_full_refresh]_vars

\* a render() over a retained image decided FULL, returned and recorded it
C23_Witness ==
    /\ ev.op = "render" /\ ev.ok /\ ev.had_image
    /\ ev.decision = "FULL" /\ ev.recorded = "full" /\ ev.count > 0
    /\ FullRefreshOnBus(ev.bus)
    /\ partial_count = 0 /\ last_full_refresh = now
    /\ last_image # NoImage /\ Image(last_image) \in FreshFullImages

\* ------------------------------------------------------------------------
\* C24
\* ------------------------------------------------------------------------
\* C24: the bus log of a render() is a prefix of the log the same call
\* gives when no transfer fails, and the whole of it exactly when render()
\* returns: a transfer that fails makes render() raise, nothing of the
\* sequence follows it and nothing is sent a second time.
C24_ErrorPropagates ==
    [][(ev'.op = "render" /\ now' = now) =>
          \E data \in Data, stale_seconds \in Stale :
              LET whole == render(Start(NoFault), data, stale_seconds).bus
              IN  /\ IsPrefix(ev'.bus, whole)
                  /\ ev'.ok <=> ev'.bus = whole
                  /\ ~ev'.ok => ev'.done = <<>>]_vars

\* a render() raised at the master activate: the frame is in RAM, the
\* selector was sent and nothing follows
C24_Witness ==
    /\ ev.op = "render" /\ ~ev.ok /\ ev.decision = "PARTIAL"
    /\ FrameWrites(ev.bus) # {}
    /\ ev.bus[Len(ev.bus)] = <<"data", 255>>
    /\ ev.recorded = "none" /\ ev.done = <<>>

\* ------------------------------------------------------------------------
\* C25
\* ------------------------------------------------------------------------
\* C25: whenever a thread writes a byte to the bus, the data/command line
\* is low if the byte is a command and high if it is data, also while the
\* KEY2 callback drives the display during a render of the main loop.
C25_SelectLine ==
    [][\A t \in Threads :
          (/\ daemon[t].op # "none"
           /\ daemon'[t].pc = daemon[t].pc + 1
           /\ IsTransfer(NextEvent(t)))
              => panel.dc = DcLevel(NextEvent(t))]_vars

\* ------------------------------------------------------------------------
\* The polling loop of the daemon and the KEY4 callback
\* ------------------------------------------------------------------------
\* Config.poll_interval: poll.interval_seconds
poll_interval == PollInterval

\* start(), normal mode, when the polling loop is entered: the renderer is
\* initialized, last_poll = 0 and time.time() is further than poll_interval
\* from it
LoopInit ==
    /\ layout = Layout
    /\ initialized = TRUE
    /\ last_full_refresh = 0
    /\ partial_count = 0
    /\ last_image = NoImage
    /\ mode = "normal"
    /\ now = poll_interval
    /\ sent = ClearBuffer
    /\ ev = [NoEv EXCEPT !.op = "init"]
    /\ hist = Impure(NoHist)
    /\ codec = NoCodec
    /\ daemon = NoDaemon
    /\ epd = [NoEpd EXCEPT !.spi = "open"]
    /\ panel = NoPanel
    /\ app = [NoApp EXCEPT !.running = TRUE, !.pc = "check"]
    /\ fetcher = NoFetcher
    /\ lcd = NoLcd

\* while self.running: current_time = time.time(); should_poll = ...
LoopCheck ==
    LET should_poll == (now - app.last_poll >= poll_interval)
                           \/ app.manual_refresh_requested
    IN  /\ app.pc = "check"
        /\ app' = IF ~app.running THEN [app EXCEPT !.pc = "shutdown"]
                  ELSE [app EXCEPT !.current_time = now,
                                   !.pc = IF should_poll THEN "poll" ELSE "sleep"]
        /\ UNCHANGED <<renderer_vars, codec, daemon, panel, fetcher, lcd>>

\* if should_poll: self._poll_and_update() is called: a poll cycle starts
PollBegin ==
    /\ app.pc = "poll"
    /\ app' = [app EXCEPT !.pc = "update", !.key4 = FALSE]
    /\ UNCHANGED <<renderer_vars, codec, daemon, panel, fetcher, lcd>>

\* _poll_and_update runs to its end (fetch_with_cache; render when there is
\* data, its exception caught), then last_poll = current_time and
\* manual_refresh_requested = False
PollEnd ==
    /\ app.pc = "update"
    /\ \E data \in Data, stale_seconds \in Stale, budget \in Budgets :
           IF data # None
           THEN Effect("render", render(Start(budget), data, stale_seconds))
           ELSE UNCHANGED renderer_vars
    /\ app' = [app EXCEPT !.last_poll = app.current_time,
                          !.manual_refresh_requested = FALSE, !.pc = "sleep"]
    /\ UNCHANGED <<codec, daemon, panel, fetcher, lcd>>

\* time.sleep(1); the clock of the model stops at MaxLoopTime
LoopSleep ==
    /\ app.pc = "sleep"
    /\ now' = IF now < MaxLoopTime THEN now + 1 ELSE now
    /\ app' = [app EXCEPT !.pc = "check"]
    /\ UNCHANGED <<initialized, last_full_refresh, partial_count, last_image, mode,
                   sent, ev, hist, layout, epd, codec, daemon, panel, fetcher, lcd>>

\* _button_callback(KEY4): _on_manual_refresh, in the thread of RPi.GPIO
LoopKey4 ==
    /\ app' = [app EXCEPT !.manual_refresh_requested = TRUE, !.key4 = TRUE]
    /\ UNCHANGED <<renderer_vars, codec, daemon, panel, fetcher, lcd>>

LoopNext == LoopCheck \/ PollBegin \/ PollEnd \/ LoopSleep \/ LoopKey4

LoopSpec == LoopInit /\ [][LoopNext]_vars

\* ------------------------------------------------------------------------
\* start() from its first statement to its return, and the signal handler
\* ------------------------------------------------------------------------
\* DisplayRenderer.shutdown: self.epd.cleanup()
shutdown(s) == cleanup(s)

\* TetsuoDisplay.__init__ has returned (the handlers of SIGINT and SIGTERM
\* are installed) and start() is called
StopInit == Init

\* try: self.renderer.init() except Exception: return
StartInit ==
    /\ app.pc = "start"
    /\ \E budget \in Budgets :
           LET r == init(Start(budget))
           IN  /\ Effect("init", r)
               /\ app' = [app EXCEPT !.pc = IF r.raised THEN "failed" ELSE "setup"]
    /\ UNCHANGED <<codec, daemon, panel, fetcher, lcd>>

\* blank mode: show_blank() in try, self.running = True; normal mode: the
\* buttons are registered, the cached data is rendered in try,
\* self.running = True
StartLoop ==
    /\ app.pc = "setup"
    /\ \E data \in Data, stale_seconds \in Stale, budget \in Budgets :
           IF mode = "blank" THEN Effect("show_blank", show_blank(Start(budget)))
           ELSE IF data # None
           THEN Effect("render", render(Start(budget), data, stale_seconds))
           ELSE UNCHANGED renderer_vars
    /\ app' = [app EXCEPT !.running = TRUE,
                          !.pc = IF mode = "blank" THEN "idle" ELSE "check"]
    /\ UNCHANGED <<codec, daemon, panel, fetcher, lcd>>

\* blank mode: while self.running: time.sleep(60)
IdleLoop ==
    /\ app.pc = "idle"
    /\ app' = IF app.running THEN app ELSE [app EXCEPT !.pc = "shutdown"]
    /\ now' = IF ~app.running THEN now
              ELSE IF now + 60 <= MaxLoopTime THEN now + 60 ELSE MaxLoopTime
    /\ UNCHANGED <<initialized, last_full_refresh, partial_count, last_image, mode,
                   sent, ev, hist, layout, epd, codec, daemon, panel, fetcher, lcd>>

\* try: self.renderer.shutdown() except Exception
StopRenderer ==
    /\ app.pc = "shutdown"
    /\ \E budget \in Budgets : Effect("shutdown", shutdown(Start(budget)))
    /\ app' = [app EXCEPT !.shutdowns = @ + 1, !.pc = "cleanup"]
    /\ UNCHANGED <<codec, daemon, panel, fetcher, lcd>>

\* try: self.buttons.cleanup() except Exception; start() returns
StopButtons ==
    /\ app.pc = "cleanup"
    /\ app' = [app EXCEPT !.cleanups = @ + 1, !.pc = "returned"]
    /\ UNCHANGED <<renderer_vars, codec, daemon, panel, fetcher, lcd>>

\* _signal_handler, between two bytecodes of the main thread
Signal ==
    /\ app.pc \notin {"failed", "returned"}
    /\ app' = [app EXCEPT !.running = FALSE, !.signalled = TRUE]
    /\ UNCHANGED <<renderer_vars, codec, daemon, panel, fetcher, lcd>>

\* the steps of the main thread
StopMain ==
    \/ StartInit \/ StartLoop \/ IdleLoop
    \/ LoopCheck \/ PollBegin \/ PollEnd \/ LoopSleep
    \/ StopRenderer \/ StopButtons

StopNext == StopMain \/ Signal

\* the main thread keeps running: at each place of start() its next step is
\* enabled and leaves the place (the idle loop of blank mode leaves it once
\* running is False), so that fairness of the thread,  WF_vars(StopMain),
\* says that it never stays at one place for ever
Places == {"start", "setup", "check", "poll", "update", "sleep", "shutdown", "cleanup"}
MainRuns ==
    /\ \A place \in Places : []<>(app.pc # place)
    /\ []<>(app.pc # "idle" \/ app.running)
    /\ WF_vars(StopButtons)

StopSpec == StopInit /\ [][StopNext]_vars /\ MainRuns

\* ------------------------------------------------------------------------
\* DataFetcher
\* ------------------------------------------------------------------------
\* the names fetch() dispatches on, and one it does not know
KnownSources == {"dexscreener_pair", "dexscreener_token", "birdeye", "geckoterminal"}
\* the names that the configurations of the model use
SourceNames == {"dexscreener_pair", "birdeye", "coingecko"}
\* fallback.order of the configuration
Orders == UNION {[1..n -> SourceNames] : n \in 0..MaxOrderLen}
\* a _fetch_* call returns a TokenData, returns None or raises
Outcomes == {"data", "none", "raise"}
\* what the sources of the entries of order do when they are requested (an
\* unknown name is never requested)
OutcomesOf(order) ==
    {o \in [DOMAIN order -> Outcomes] :
        \A i \in DOMAIN order : order[i] \notin KnownSources => o[i] = "none"}
\* _save_cache writes the file; or open() raises and the file stays as it
\* was; or open() has truncated the file and json.dump raises
Saves == {"ok", "denied", "truncated"}

\* TokenData(price_usd=..., source=..., updated_at_epoch=int(time.time()))
TokenData(price_usd, source, updated_at_epoch) ==
    [price_usd |-> price_usd, source |-> source, updated_at_epoch |-> updated_at_epoch]

\* TokenData.to_dict: the JSON object, as its set of key/value pairs
to_dict(data) ==
    {<<"price_usd", data.price_usd>>, <<"source", data.source>>,
     <<"updated_at_epoch", data.updated_at_epoch>>}

\* key in data
HasKey(dict, key) == \E kv \in dict : kv[1] = key

\* data[key]
Item(dict, key) == (CHOOSE kv \in dict : kv[1] = key)[2]

\* TokenData.from_dict
from_dict(dict) ==
    TokenData(Item(dict, "price_usd"), Item(dict, "source"), Item(dict, "updated_at_epoch"))

\* TokenData.age_seconds
age_seconds(data, t) == t - data.updated_at_epoch

\* DataFetcher._save_cache
_save_cache(cache, data, save) ==
    CASE save = "ok" -> [state |-> "file", content |-> to_dict(data)]
      [] save = "denied" -> cache
      [] save = "truncated" -> [state |-> "corrupt", content |-> <<>>]

\* DataFetcher._load_cache: None when the file does not exist or when
\* reading or parsing it raises
_load_cache(cache) ==
    IF /\ cache.state = "file"
       /\ \A key \in {"price_usd", "source", "updated_at_epoch"} : HasKey(cache.content, key)
    THEN from_dict(cache.content)
    ELSE NoData

\* the same loop, but a source that raises ends it
RECURSIVE FetchFrom_abort(_, _, _, _, _)
FetchFrom_abort(order, outcomes, t, i, contacted) ==
    IF i > Len(order) THEN [data |-> NoData, contacted |-> contacted]
    ELSE IF order[i] \notin KnownSources
         THEN FetchFrom_abort(order, outcomes, t, i + 1, contacted)
    ELSE IF outcomes[i] = "data"
         THEN [data |-> TokenData(1, order[i], t), contacted |-> Append(contacted, i)]
    ELSE IF outcomes[i] = "raise"
         THEN [data |-> NoData, contacted |-> Append(contacted, i)]
    ELSE FetchFrom_abort(order, outcomes, t, i + 1, Append(contacted, i))

\* the for loop of fetch() from entry i of fallback_order on; contacted:
\* the entries whose source has been requested so far
RECURSIVE FetchFrom(_, _, _, _, _)
FetchFrom(order, outcomes, t, i, contacted) ==
    IF i > Len(order) THEN [data |-> NoData, contacted |-> contacted]
    ELSE IF order[i] \notin KnownSources
         THEN FetchFrom(order, outcomes, t, i + 1, contacted)
    ELSE IF outcomes[i] = "data"
         THEN [data |-> TokenData(1, order[i], t), contacted |-> Append(contacted, i)]
    ELSE FetchFrom(order, outcomes, t, i + 1, Append(contacted, i))

\* DataFetcher.fetch
fetch(cache, order, outcomes, save, t) ==
    LET r == FetchFrom(order, outcomes, t, 1, <<>>)
    IN  [data |-> r.data, contacted |-> r.contacted,
         cache |-> IF r.data # NoData THEN _save_cache(cache, r.data, save) ELSE cache]

\* DataFetcher.fetch_with_cache
fetch_with_cache(cache, order, outcomes, save, t) ==
    LET r == fetch(cache, order, outcomes, save, t)
        cached_data == _load_cache(r.cache)
        ret == IF r.data # NoData THEN <<r.data, 0>>
               ELSE IF cached_data # NoData
                    THEN <<cached_data, age_seconds(cached_data, t)>>
               ELSE <<NoData, 0>>
    IN  [fresh |-> r.data, contacted |-> r.contacted, cache |-> r.cache,
         data |-> ret[1], stale |-> ret[2]]

\* _poll_and_update: data, stale_for = self.fetcher.fetch_with_cache()
DoFetchWithCache ==
    /\ fetcher.call.op = "none"
    /\ \E order \in Orders, save \in Saves :
           \E outcomes \in OutcomesOf(order) :
               LET r == fetch_with_cache(fetcher.cache, order, outcomes, save, now)
               IN  /\ fetcher' = [cache |-> r.cache,
                                  last |-> IF r.fresh # NoData THEN r.fresh
                                           ELSE fetcher.last,
                                  call |-> [op |-> "fetch_with_cache", order |-> order,
                                            outcomes |-> outcomes,
                                            contacted |-> r.contacted, fresh |-> r.fresh,
                                            data |-> r.data, stale |-> r.stale]]
                   /\ UNCHANGED <<renderer_vars, codec, daemon, panel, app, lcd>>

\* the call returns: the locals of the call are gone
FetchReturn ==
    /\ fetcher.call.op # "none"
    /\ fetcher' = [fetcher EXCEPT !.call = NoFetch]
    /\ UNCHANGED <<renderer_vars, codec, daemon, panel, app, lcd>>

FetchInit == Init /\ mode = "normal"

FetchNext == DoFetchWithCache \/ FetchReturn \/ Tick

FetchSpec == FetchInit /\ [][FetchNext]_vars

\* ------------------------------------------------------------------------
\* C27
\* ------------------------------------------------------------------------
\* C27: while a KEY4 press has not been followed by the start of a poll
\* cycle, the request stays recorded in manual_refresh_requested (so that
\* the next check of the loop polls without waiting for poll_interval),
\* also when the press arrives while a poll cycle is running.
C27_PressNotLost == app.key4 => app.manual_refresh_requested

\* ------------------------------------------------------------------------
\* ButtonHandler
\* ------------------------------------------------------------------------
\* the debounce check of _button_callback, rejecting also a press that comes
\* exactly debounce_time after the last one
Bounces_le(current_time, last_press_time) ==
    current_time - last_press_time <= debounce_time

\* if current_time - self.last_press_time[channel] < self.debounce_time: return
Bounces(current_time, last_press_time) ==
    current_time - last_press_time < debounce_time

\* ButtonHandler._button_callback; raises: the callback raises
_button_callback(b, channel, raises) ==
    LET current_time == b.clock
        press == [channel |-> channel, at |-> current_time,
                  since |-> current_time - b.accepted[channel],
                  invoked |-> FALSE, raised |-> FALSE, propagated |-> FALSE]
    IN  IF Bounces(current_time, b.last_press_time[channel])
        THEN [b EXCEPT !.ev = press]
        ELSE [b EXCEPT !.last_press_time[channel] = current_time,
                       !.accepted[channel] = current_time,
                       !.ev = [press EXCEPT !.invoked = channel \in b.callbacks,
                                            !.raised = channel \in b.callbacks /\ raises]]

\* a falling edge on the pin of a key
Press ==
    \E channel \in Keys, raises \in BOOLEAN :
        /\ app' = [app EXCEPT !.buttons = _button_callback(@, channel, raises)]
        /\ UNCHANGED <<renderer_vars, codec, daemon, panel, fetcher, lcd>>

\* a tenth of a second passes
ButtonTick ==
    /\ app.buttons.clock < MaxButtonTime
    /\ app' = [app EXCEPT !.buttons.clock = @ + 1, !.buttons.ev = NoPress]
    /\ UNCHANGED <<renderer_vars, codec, daemon, panel, fetcher, lcd>>

ButtonNext == Press \/ ButtonTick

ButtonSpec == FetchInit /\ [][ButtonNext]_vars

\* ------------------------------------------------------------------------
\* The requests of one source
\* ------------------------------------------------------------------------
\* what one attempt meets: requests.get or raise_for_status raises a
\* RequestException; the response has no pair or no price; the response
\* has a price; the response makes the parsing raise another exception
Responses == {"exception", "noprice", "data", "error"}

\* the loop below, retrying also after a response without price
RECURSIVE Attempts_retry_none(_, _, _, _)
Attempts_retry_none(max_retries, responses, attempt, slept) ==
    IF attempt > max_retries THEN [result |-> "none", attempts |-> attempt, slept |-> slept]
    ELSE LET response == responses[attempt + 1]
         IN  IF response = "data"
             THEN [result |-> "data", attempts |-> attempt + 1, slept |-> slept]
             ELSE IF response = "error"
             THEN [result |-> "raise", attempts |-> attempt + 1, slept |-> slept]
             ELSE IF attempt < max_retries
             THEN Attempts_retry_none(max_retries, responses, attempt + 1,
                                      Append(slept, attempt))
             ELSE [result |-> IF response = "noprice" THEN "none" ELSE "raise",
                   attempts |-> attempt + 1, slept |-> slept]

\* for attempt in range(self.max_retries + 1), from attempt on (attempt
\* counts from 0); slept: the attempts followed by time.sleep(0.5 * 2 ** attempt)
RECURSIVE Attempts(_, _, _, _)
Attempts(max_retries, responses, attempt, slept) ==
    IF attempt > max_retries THEN [result |-> "none", attempts |-> attempt, slept |-> slept]
    ELSE LET response == responses[attempt + 1]
         IN  IF response = "data"
             THEN [result |-> "data", attempts |-> attempt + 1, slept |-> slept]
             ELSE IF response = "noprice"
             THEN [result |-> "none", attempts |-> attempt + 1, slept |-> slept]
             ELSE IF response = "error"
             THEN [result |-> "raise", attempts |-> attempt + 1, slept |-> slept]
             ELSE IF attempt < max_retries
             THEN Attempts(max_retries, responses, attempt + 1, Append(slept, attempt))
             ELSE [result |-> "raise", attempts |-> attempt + 1, slept |-> slept]

\* DataFetcher._fetch_dexscreener_pair
_fetch_dexscreener_pair(pair_address, max_retries, responses) ==
    IF pair_address = "" THEN [result |-> "none", attempts |-> 0, slept |-> <<>>]
    ELSE Attempts(max_retries, responses, 0, <<>>)

\* DataFetcher._fetch_dexscreener_token
_fetch_dexscreener_token(max_retries, responses) ==
    Attempts(max_retries, responses, 0, <<>>)

\* fetch() with fallback.order = [source, geckoterminal], the second source
\* yielding data: the first source makes its requests
FetchSource ==
    /\ fetcher.call.op = "none"
    /\ \E source \in {"dexscreener_pair", "dexscreener_token"},
          pair_address \in {"", "PAIR"}, max_retries \in 0..MaxRetries :
           \E responses \in [1..(max_retries + 1) -> Responses] :
               LET r == IF source = "dexscreener_pair"
                        THEN _fetch_dexscreener_pair(pair_address, max_retries, responses)
                        ELSE _fetch_dexscreener_token(max_retries, responses)
                   f == FetchFrom(<<source, "geckoterminal">>, <<r.result, "data">>,
                                  now, 1, <<>>)
               IN  /\ source = "dexscreener_token" => pair_address = "PAIR"
                   /\ fetcher' = [fetcher EXCEPT
                                     !.call = [op |-> source, pair_address |-> pair_address,
                                               max_retries |-> max_retries,
                                               responses |-> responses, result |-> r.result,
                                               attempts |-> r.attempts, slept |-> r.slept,
                                               contacted |-> f.contacted, data |-> f.data]]
                   /\ UNCHANGED <<renderer_vars, codec, daemon, panel, app, lcd>>

RetryNext == FetchSource \/ FetchReturn \/ Tick

RetrySpec == FetchInit /\ [][RetryNext]_vars

\* ------------------------------------------------------------------------
\* C28
\* ------------------------------------------------------------------------
\* the entries of the last call's order whose source yields data
Yielding == {i \in DOMAIN fetcher.call.order :
                /\ fetcher.call.order[i] \in KnownSources
                /\ fetcher.call.outcomes[i] = "data"}

\* the first of them, or the last entry when there is none
LastTried ==
    IF Yielding = {} THEN Len(fetcher.call.order)
    ELSE CHOOSE i \in Yielding : \A j \in Yielding : i <= j

\* C28: fetch requests the sources in the order of fallback.order, goes on
\* to the next one after a source that raises or yields nothing, requests
\* none after the first one that yields data and returns that one's
\* record; it returns None exactly when no configured source yields data.
C28_FallbackOrder ==
    LET c == fetcher.call
    IN  c.op # "none" =>
            /\ \A k \in 1..(Len(c.contacted) - 1) : c.contacted[k] < c.contacted[k + 1]
            /\ {c.contacted[k] : k \in DOMAIN c.contacted}
                   = {i \in 1..LastTried : c.order[i] \in KnownSources}
            /\ Yielding # {} => c.fresh # NoData /\ c.fresh.source = c.order[LastTried]
            /\ (c.fresh = NoData) <=> (Yielding = {})

\* a source raises, the next one is requested and yields the record returned
C28_Witness ==
    /\ fetcher.call.op # "none"
    /\ Len(fetcher.call.order) = 2
    /\ fetcher.call.outcomes = <<"raise", "data">>
    /\ fetcher.call.contacted = <<1, 2>>
    /\ fetcher.call.fresh # NoData

\* ------------------------------------------------------------------------
\* C29
\* ------------------------------------------------------------------------
\* C29: a call of fetch_with_cache returns (fresh record, 0) when a source
\* yields data; when none does, it returns the record fetched most
\* recently together with its age, and (None, 0) only when no record was
\* ever fetched or the cache file cannot be read (it is missing or
\* damaged).
C29_CacheFallback ==
    [][(now' = now /\ fetcher'.call.op = "fetch_with_cache") =>
          LET c == fetcher'.call
          IN  IF c.fresh # NoData
              THEN c.data = c.fresh /\ c.stale = 0 /\ c.fresh.updated_at_epoch = now
              ELSE IF fetcher.last # NoData /\ fetcher.cache.state = "file"
                   THEN c.data = fetcher.last
                            /\ c.stale = now - fetcher.last.updated_at_epoch
              ELSE c.data = NoData /\ c.stale = 0]_vars

\* ------------------------------------------------------------------------
\* C30
\* ------------------------------------------------------------------------
\* C30: a render() in blank mode draws nothing: it executes no full or
\* partial render, every frame it writes is the all-white frame of clear(),
\* the frame on the panel stays or becomes all-white, the retained frame
\* is all-white when the call returns normally, and partial_count and
\* last_full_refresh keep their values (last_full_refresh the one that
\* init() gives it when the call is the one that initializes).
C30_BlankRender ==
    [][(now' = now /\ ev'.op = "render" /\ mode = "blank") =>
          /\ ev'.done = <<>>
          /\ \A i \in FrameWrites(ev'.bus) : ev'.bus[i] = <<"frame", ClearBuffer.len>>
          /\ sent' \in {sent, ClearBuffer}
          /\ ev'.ok => last_image' = Retained(ImageNew) /\ sent' = ClearBuffer
          /\ partial_count' = partial_count
          /\ last_full_refresh' = IF ~initialized /\ initialized' THEN now
                                  ELSE last_full_refresh]_vars

\* a render() in blank mode on an initialized renderer that retained a
\* frame has returned normally
C30_Witness ==
    /\ mode = "blank"
    /\ ev.op = "render"
    /\ ev.ok
    /\ ev.had_image
    /\ FrameWrites(ev.bus) # {}
    /\ last_image = Retained(ImageNew)

\* ------------------------------------------------------------------------
\* C26
\* ------------------------------------------------------------------------
\* C26: a render() that starts while a KEY1 press has not been followed by
\* a render() yet decides FULL, also when the press came during a render
\* of the main loop.
C26_ForcedFullNext ==
    [][(daemon["main"].op = "none" /\ daemon'["main"].op = "render" /\ app.key1)
          => daemon'["main"].plan.decision = "FULL"]_vars

\* ------------------------------------------------------------------------
\* C31
\* ------------------------------------------------------------------------
\* a render() step that raised
FailedRender == now' = now /\ ev'.op = "render" /\ ~ev'.ok

\* C31 as stated: when a driver call raises during render(),
\* last_full_refresh, partial_count and last_image have the values they
\* had before the call.
C31_StateUnchanged ==
    [][FailedRender =>
          /\ last_full_refresh' = last_full_refresh
          /\ partial_count' = partial_count
          /\ last_image' = last_image]_vars

\* C31, amended: when a driver call raises during render(), partial_count
\* and last_image have the values they had before the call, and so has
\* last_full_refresh unless this render() initialized the renderer before
\* the failing call: then it is the time of that initialization.
C31_FailedRenderNotRecorded ==
    [][FailedRender =>
          /\ last_full_refresh' = IF ~initialized /\ initialized' THEN now
                                  ELSE last_full_refresh
          /\ partial_count' = partial_count
          /\ last_image' = last_image
          /\ ev'.recorded = "none"]_vars

\* a render() that had decided FULL or PARTIAL raised in a driver call
\* after some bus traffic
C31_Witness ==
    /\ ev.op = "render"
    /\ ~ev.ok
    /\ ev.decision \in {"FULL", "PARTIAL"}
    /\ Len(ev.bus) > 0

\* ------------------------------------------------------------------------
\* C32
\* ------------------------------------------------------------------------
\* C32: the panel never receives more than full_refresh_after_partials
\* partial-mode activations in a row.
C32_PartialRunBounded == hist.run <= full_refresh_after_partials

\* the panel has received full_refresh_after_partials partial-mode
\* activations in a row
C32_Witness ==
    /\ hist.run = full_refresh_after_partials
    /\ ev.op = "render"
    /\ ev.decision = "PARTIAL"

\* ------------------------------------------------------------------------
\* C33
\* ------------------------------------------------------------------------
\* C33: once a shutdown signal has been handled, start() eventually
\* returns after one renderer.shutdown() and one buttons.cleanup() (also
\* when shutdown() raised), unless it returned on a failed initialization.
C33_SignalStops ==
    app.signalled ~> \/ app.pc = "failed"
                     \/ app.pc = "returned" /\ app.shutdowns = 1 /\ app.cleanups = 1

\* ------------------------------------------------------------------------
\* C34
\* ------------------------------------------------------------------------
\* C34: a source makes at most max_retries + 1 requests; every request
\* before the last one it makes met a request exception and was followed
\* by a sleep; a request exception on the last one means that no attempt
\* was left, and the exception reaches fetch(), which goes on to the next
\* source; a response without price ends the source at once with None.
C34_BoundedRetries ==
    LET c == fetcher.call
    IN  c.op \in {"dexscreener_pair", "dexscreener_token"} =>
            /\ c.attempts <= c.max_retries + 1
            /\ \A k \in 1..(c.attempts - 1) : c.responses[k] = "exception"
            /\ c.slept = [k \in 1..(c.attempts - 1) |-> k - 1]
            /\ c.attempts > 0 =>
                   LET last == c.responses[c.attempts]
                   IN  /\ last = "exception" =>
                              /\ c.attempts = c.max_retries + 1
                              /\ c.result = "raise"
                              /\ c.contacted = <<1, 2>>
                              /\ c.data.source = "geckoterminal"
                       /\ last = "noprice" => c.result = "none"
                       /\ last = "data" => c.result = "data" /\ c.contacted = <<1>>

\* two request exceptions, then a response without price: None after three
\* requests
C34_Witness ==
    /\ fetcher.call.op = "dexscreener_token"
    /\ fetcher.call.max_retries = 2
    /\ fetcher.call.responses = <<"exception", "exception", "noprice">>
    /\ fetcher.call.attempts = 3
    /\ fetcher.call.result = "none"

\* ------------------------------------------------------------------------
\* C35
\* ------------------------------------------------------------------------
\* C35: a press of a key invokes the key's callback exactly when the key
\* has a callback and at least debounce_time has passed since the last
\* accepted press of that key, whatever was pressed on the other keys; the
\* press leaves the times of the other keys alone, and an exception of the
\* callback does not leave _button_callback.
C35_Debounce ==
    [][app'.buttons.ev.channel \in Keys =>
          LET e == app'.buttons.ev
          IN  /\ e.invoked <=> (e.channel \in app.buttons.callbacks
                                    /\ e.at - app.buttons.accepted[e.channel] >= debounce_time)
              /\ \A k \in Keys \ {e.channel} :
                     app'.buttons.last_press_time[k] = app.buttons.last_press_time[k]
              /\ ~e.propagated]_vars

\* a press of KEY1 is accepted exactly debounce_time after the last
\* accepted one, KEY4 having been pressed in between, and its callback raises
C35_Witness ==
    LET b == app.buttons
    IN  /\ b.ev.channel = KEY1 /\ b.ev.invoked /\ b.ev.raised
        /\ b.ev.since = debounce_time
        /\ b.ev.at > 2 * debounce_time - 1
        /\ b.accepted[KEY4] > b.ev.at - debounce_time
        /\ b.accepted[KEY4] < b.ev.at

\* ------------------------------------------------------------------------
\* The LCD application: the snapshot file of Cache and the display loop
\* ------------------------------------------------------------------------
\* data.get(key, default)
Get(dict, key, default) == IF HasKey(dict, key) THEN Item(dict, key) ELSE default

\* Cache.save: {'timestamp': ..., 'data': {...}} written to cache.path, the
\* file DataFetcher writes as well; an exception is logged and swallowed
Cache_save(cache, data, save, t) ==
    CASE save = "ok" ->
             [state |-> "file",
              content |-> {<<"timestamp", t>>,
                           <<"data", {<<"price_usd", data.price_usd>>,
                                      <<"source", data.source>>,
                                      <<"updated_at_epoch", data.updated_at_epoch>>}>>}]
      [] save = "denied" -> cache
      [] save = "truncated" -> [state |-> "corrupt", content |-> <<>>]

\* Cache.load: None when the file does not exist or cannot be parsed,
\* otherwise a TokenData built from cache_data.get('data', {}) with defaults
Cache_load(cache) ==
    IF cache.state = "file"
    THEN LET data == Get(cache.content, "data", {})
         IN  TokenData(Get(data, "price_usd", 0), Get(data, "source", "cache"),
                       Get(data, "updated_at_epoch", 0))
    ELSE NoData

\* the seconds counted towards poll_interval after a sleep of d more
SinceAfter(since, d) ==
    IF since + d < lcd_poll_interval THEN since + d ELSE lcd_poll_interval

\* consecutive_errors += 1; values from max_consecutive_errors * 2 on are
\* never told apart by the loop and are kept as one
ErrorsAfter(consecutive_errors) ==
    IF consecutive_errors < 2 * max_consecutive_errors
    THEN consecutive_errors + 1 ELSE consecutive_errors

\* the except Exception branch of the loop, entered with the locals l
LcdExcept(l) ==
    LET consecutive_errors == ErrorsAfter(l.consecutive_errors)
        run == IF l.run < 2 * max_consecutive_errors THEN l.run + 1 ELSE l.run
    IN  IF consecutive_errors >= max_consecutive_errors * 2
        THEN [l EXCEPT !.consecutive_errors = consecutive_errors, !.run = run,
                       !.shown_error = TRUE, !.pc = "stopped"]
        ELSE [l EXCEPT !.consecutive_errors = consecutive_errors, !.run = run,
                       !.since = SinceAfter(l.since, 1)]

\* one iteration of the while loop of _run_display_loop. outcome: what the
\* data source does in fetcher.fetch(); change_known: whether the record's
\* change_24h_pct is a number (the log line formats it with +.2f);
\* render_raises: whether renderer.render raises; d: whether the 0.1 s
\* sleeps have added up to another second
LcdIteration ==
    /\ lcd.pc = "loop"
    /\ \E outcome \in Outcomes, save \in Saves, change_known \in BOOLEAN,
          render_raises \in BOOLEAN, d \in {0, 1} :
        LET due == lcd.since >= lcd_poll_interval
            r == fetch(fetcher.cache, <<"dexscreener_pair">>, <<outcome>>, save, now)
            logged == ~due \/ r.data = NoData \/ change_known
            saved == due /\ r.data # NoData /\ change_known
            consecutive_errors == ErrorsAfter(lcd.consecutive_errors)
            fetched ==
                IF ~due THEN lcd
                ELSE IF r.data # NoData
                     THEN IF change_known
                          THEN [lcd EXCEPT !.last_data = r.data, !.since = 0,
                                           !.consecutive_errors = 0]
                          ELSE lcd
                ELSE [lcd EXCEPT
                        !.consecutive_errors = consecutive_errors,
                        !.last_data =
                            IF /\ consecutive_errors >= max_consecutive_errors
                               /\ lcd.last_data = NoData
                            THEN Cache_load(r.cache) ELSE lcd.last_data]
            cache == IF ~due THEN fetcher.cache
                     ELSE IF saved THEN Cache_save(r.cache, r.data, save, now)
                     ELSE r.cache
        IN  /\ lcd' = IF ~logged \/ render_raises THEN LcdExcept(fetched)
                      ELSE [fetched EXCEPT !.run = 0, !.since = SinceAfter(fetched.since, d)]
            /\ fetcher' = [fetcher EXCEPT
                              !.cache = cache,
                              !.last = IF due /\ r.data # NoData THEN r.data ELSE @]
    /\ UNCHANGED <<renderer_vars, codec, daemon, panel, app>>

\* _signal_handler -> stop(): running = False ends the loop
LcdStop ==
    /\ lcd.pc = "loop"
    /\ lcd' = [lcd EXCEPT !.pc = "stopped"]
    /\ UNCHANGED <<renderer_vars, codec, daemon, panel, app, fetcher>>

LcdNext == LcdIteration \/ LcdStop

LcdSpec == FetchInit /\ [][LcdNext]_vars

\* ------------------------------------------------------------------------
\* C36
\* ------------------------------------------------------------------------
\* C36: once max_consecutive_errors * 2 iterations in a row have failed
\* (raised), the display loop has shown the error screen and exited; it is
\* never still looping after such a run
C36_ErrorRunExits ==
    lcd.run >= 2 * max_consecutive_errors => lcd.pc = "stopped" /\ lcd.shown_error

\* ------------------------------------------------------------------------
\* C37
\* ------------------------------------------------------------------------
\* the records the display loop may hand to Cache.save: fetched now or earlier
Prices == {1, 2, 3}
Records ==
    {TokenData(price_usd, source, updated_at_epoch) :
        price_usd \in Prices, source \in SourceNames \cap KnownSources,
        updated_at_epoch \in {t \in 0..now : t % TimeStep = 0}}

\* DataFetcher.fetch returns a record: it has written it with _save_cache
SnapFetch ==
    \E order \in Orders :
        \E outcomes \in OutcomesOf(order) :
            LET r == fetch(fetcher.cache, order, outcomes, "ok", now)
            IN  /\ r.data # NoData
                /\ fetcher' = [cache |-> r.cache, last |-> r.data,
                               call |-> [NoFetch EXCEPT !.op = "fetch", !.data = r.data]]
                /\ UNCHANGED <<renderer_vars, codec, daemon, panel, app, lcd>>

\* self.cache.save(data)
SnapSave ==
    \E data \in Records :
        /\ fetcher' = [cache |-> Cache_save(fetcher.cache, data, "ok", now),
                       last |-> data,
                       call |-> [NoFetch EXCEPT !.op = "save", !.data = data]]
        /\ UNCHANGED <<renderer_vars, codec, daemon, panel, app, lcd>>

SnapNext == SnapFetch \/ SnapSave \/ Tick

SnapSpec == FetchInit /\ [][SnapNext]_vars

\* C37: after any sequence of successful DataFetcher.fetch calls and
\* Cache.save calls on the shared snapshot file, Cache.load and
\* DataFetcher._load_cache (the cache fallback) both return the record
\* saved last, with its price, source and timestamp
C37_SnapshotReadableByBoth ==
    fetcher.call.op \in {"fetch", "save"} =>
        /\ Cache_load(fetcher.cache) = fetcher.last
        /\ _load_cache(fetcher.cache) = fetcher.last

\* either reader alone, after the other writer has written
C37_CacheLoadAfterFetch ==
    fetcher.call.op = "fetch" => Cache_load(fetcher.cache) = fetcher.last
C37_FallbackAfterSave ==
    fetcher.call.op = "save" => _load_cache(fetcher.cache) = fetcher.last
\* each reader after its own writer
C37_OwnFormat ==
    /\ fetcher.call.op = "fetch" => _load_cache(fetcher.cache) = fetcher.last
    /\ fetcher.call.op = "save" => Cache_load(fetcher.cache) = fetcher.last

====
